---- MODULE Spec2Model ----
(***************************************************************************)
(* Model of the expense-analysis engine: the file validator and currency   *)
(* normaliser (src/src/services/file_parser.py), the aggregations          *)
(* (src/src/services/calculations.py), the classifier                      *)
(* (src/src/services/subcategory_classifier.py), the metrics               *)
(* (src/src/services/metrics.py), the session state                        *)
(* (src/src/services/session_manager.py) and the upload pipeline           *)
(* (src/src/app.py).                                                       *)
(*                                                                         *)
(* Text is a sequence of one-character strings.  A cell of a raw table is  *)
(* a record tagged by t: "str" (text), "date" (a text of the form          *)
(* YYYY-MM-DD), "nan" (a missing cell, NaN/None), "num" (a float,          *)
(* n / 10^k), "ts" (a Timestamp) or "nat" (NaT).                           *)
(***************************************************************************)
EXTENDS Integers, Sequences, FiniteSets, TLC

VARIABLES
    df,      \* the caller's DataFrame object, the argument of the call
    raw,     \* the table as it was handed in (never written after Init)
    pc,      \* "idle", or the name of the operation that has run
    ret,     \* what the operation returned or raised
    written, \* the amounts the value cells were written from (never written after Init)
    tx,      \* aggregator: the canonical transaction set (a sequence of rows)
    out,     \* aggregator: the result of the last aggregation; app: what main showed
    arg,     \* the argument of the call beside the data (window, category, description,
             \* monthly summary, upload)
    session  \* st.session_state: the keys set in it, each with its value

vars == <<df, raw, pc, ret, written, tx, out, arg, session>>

---------------------------------------------------------------------------
(* Bounds of the model. *)

MaxRows == 2

MaxTx == 3

\* float64 keeps 53 significant bits; the model's floats keep MantissaBits
MantissaBits == 3

\* rows of the frame handed to calculate_rolling_average
MaxRollTx == 3

\* the windows of calculate_rolling_average are 1..MaxWindow
MaxWindow == 3

\* a quotient of floats is kept to 1/Resolution of the unit
Resolution == 100000

\* rows of the frame handed to the classifier
MaxClassifierRows == 1

\* rows of the frame handed to calculate_subcategory_breakdown
MaxBreakdownRows == 3

\* the most transactions of the set handed to the metrics
MaxMetricsTx == 3

\* the most rows of the set that is handed to one operation after another
MaxCallRows == 2

---------------------------------------------------------------------------
(* Sequence helpers. *)

Range(s) == {s[i] : i \in 1..Len(s)}

Tuples(S, n) == [1..n -> S]

SeqsUpTo(S, n) == UNION {Tuples(S, k) : k \in 0..n}

---------------------------------------------------------------------------
(* Cells. *)

Str(s) == [t |-> "str", s |-> s]
NaN == [t |-> "nan"]
NaT == [t |-> "nat"]
Num(n, k) == [t |-> "num", n |-> n, k |-> k]
Timestamp(y, m, d) == [t |-> "ts", y |-> y, m |-> m, d |-> d]

Digits == <<"0", "1", "2", "3", "4", "5", "6", "7", "8", "9">>

IsDigit(c) == c \in Range(Digits)

DigitVal(c) == (CHOOSE i \in 1..10 : Digits[i] = c) - 1

RECURSIVE Pow10(_)
Pow10(k) == IF k = 0 THEN 1 ELSE 10 * Pow10(k - 1)

\* a float is kept as n / 10^k with no trailing zero in its fraction
RECURSIVE Normal(_, _)
Normal(n, k) == IF k > 0 /\ n % 10 = 0 THEN Normal(n \div 10, k - 1) ELSE Num(n, k)

RECURSIVE NatText(_)
NatText(n) == IF n < 10 THEN <<Digits[n + 1]>> ELSE NatText(n \div 10) \o <<Digits[(n % 10) + 1]>>

RECURSIVE FracText(_, _)
FracText(n, k) == IF k = 0 THEN <<>> ELSE FracText(n \div 10, k - 1) \o <<Digits[(n % 10) + 1]>>

\* str(float): sign, integer part, ".", fraction ("0" when there is none)
FloatText(n, k) ==
    LET a == IF n < 0 THEN -n ELSE n
        sign == IF n < 0 THEN <<"-">> ELSE <<>>
    IN  sign \o NatText(a \div Pow10(k)) \o <<".">>
             \o (IF k = 0 THEN <<"0">> ELSE FracText(a % Pow10(k), k))

\* Series.astype(str) on one cell
AsStr(c) ==
    CASE c.t = "str" -> c.s
      [] c.t = "nan" -> <<"n", "a", "n">>
      [] c.t = "num" -> FloatText(c.n, c.k)
      [] c.t = "nat" -> <<"N", "a", "T">>   \* NaT
      [] OTHER -> NatText(c.y) \o <<"-">> \o FracText(c.m, 2) \o <<"-">> \o FracText(c.d, 2)

---------------------------------------------------------------------------
(* detect_currency_symbol and strip_currency_symbols. *)

\* the character class of detect_currency_symbol's currency_pattern ("THB"
\* stands for the baht sign, which is one character in the source)
DetectPattern ==
    {"$", "€", "£", "¥", "₹", "¢", "₽", "₩", "₪", "₱", "THB", "₴",
     "₦", "₨", "₡", "₲", "₵", "₸", "₺", "₼", "₾", "₿"}

\* the regular expression class \s, as far as the model's texts go
Whitespace == {" ", "\t"}

\* mutant of StripPattern: the class holds the common symbols only
StripPatternOfCommonSymbols == {"$", "€", "£"} \cup Whitespace

\* the character class of strip_currency_symbols' currency_pattern
StripPattern ==
    {"$", "€", "£", "¥", "₹", "¢", "₽", "₩", "₪", "₱", "THB", "₴",
     "₦", "₨", "₡", "₲", "₵", "₸", "₺", "₼", "₾", "₿"} \cup Whitespace

\* re.findall(currency_pattern, value), as the set of what it finds
FindAll(text) == Range(text) \cap DetectPattern

MultipleCurrencies == "Multiple currencies detected. Please ensure all values use the same currency."

Raise(exc, rule, msg, found) == [kind |-> "raise", exc |-> exc, rule |-> rule, msg |-> msg, found |-> found]
Return(v) == [kind |-> "return", value |-> v]
None == [t |-> "none"]

\* the first symbol of a text, as re.search would give it
RECURSIVE FirstSymbol(_)
FirstSymbol(text) ==
    IF text = <<>> THEN {}
    ELSE IF Head(text) \in DetectPattern THEN {Head(text)} ELSE FirstSymbol(Tail(text))

\* mutant of DetectedCurrencies: only the first match of each value is kept
DetectedFirstMatches(series) == UNION {FirstSymbol(AsStr(series[i])) : i \in 1..Len(series)}

\* detected_currencies after the loop over value_series.astype(str)
DetectedCurrencies(series) == UNION {FindAll(AsStr(series[i])) : i \in 1..Len(series)}

\* mutant of detect_currency_symbol: a symbol counts only when every value has it
detect_in_every_value(series) ==
    LET detected == DetectedCurrencies(series)
        everywhere == {c \in detected : \A i \in 1..Len(series) : c \in FindAll(AsStr(series[i]))}
    IN  IF everywhere = {} THEN Return(None)
        ELSE IF Cardinality(detected) > 1
             THEN Raise("ValueError", "currency", MultipleCurrencies, <<>>)
             ELSE Return(Str(<<CHOOSE s \in detected : TRUE>>))

detect_currency_symbol(series) ==
    LET detected == DetectedCurrencies(series)
    IN  IF detected = {} THEN Return(None)
        ELSE IF Cardinality(detected) > 1
             THEN Raise("ValueError", "currency", MultipleCurrencies, <<>>)
             ELSE Return(Str(<<CHOOSE s \in detected : TRUE>>))

\* str.replace(currency_pattern, '', regex=True) on one text
RECURSIVE StripText(_)
StripText(text) ==
    IF text = <<>> THEN <<>>
    ELSE IF Head(text) \in StripPattern THEN StripText(Tail(text))
         ELSE <<Head(text)>> \o StripText(Tail(text))

\* mutant of strip_currency_symbols: everything but digits and "." is removed
RECURSIVE KeepDigits(_)
KeepDigits(text) ==
    IF text = <<>> THEN <<>>
    ELSE IF IsDigit(Head(text)) \/ Head(text) = "." THEN <<Head(text)>> \o KeepDigits(Tail(text))
         ELSE KeepDigits(Tail(text))

strip_to_digits(series) == [i \in 1..Len(series) |-> Str(KeepDigits(AsStr(series[i])))]

strip_currency_symbols(series) == [i \in 1..Len(series) |-> Str(StripText(AsStr(series[i])))]

---------------------------------------------------------------------------
(* pandas conversions used by validate_file. *)

IsLeap(y) == (y % 4 = 0 /\ y % 100 # 0) \/ y % 400 = 0

DaysIn(y, m) ==
    IF m = 2 THEN (IF IsLeap(y) THEN 29 ELSE 28)
    ELSE IF m \in {4, 6, 9, 11} THEN 30 ELSE 31

\* a date text "YYYY-MM-DD" is kept with its three numbers already split:
\* [t |-> "date", y, m, d]; any other text is a "str" cell
DateText(y, m, d) == [t |-> "date", y |-> y, m |-> m, d |-> d]

\* pd.to_datetime on one cell of a date column (a text, a Timestamp or a
\* missing cell): "error" stands for the exception
ToDatetimeCell(c) ==
    CASE c.t = "date" ->
           IF c.m \in 1..12 /\ c.d \in 1..DaysIn(c.y, c.m)
           THEN Timestamp(c.y, c.m, c.d) ELSE [t |-> "error"]
      [] c.t = "ts" -> c
      [] c.t \in {"nan", "nat"} -> NaT
      [] c.t = "str" -> IF c.s = <<>> THEN NaT ELSE [t |-> "error"]
      [] OTHER -> [t |-> "error"]

\* leading and trailing whitespace is skipped by the float parser
RECURSIVE LStrip(_)
LStrip(s) == IF s # <<>> /\ Head(s) \in Whitespace THEN LStrip(Tail(s)) ELSE s

RECURSIVE RStrip(_)
RStrip(s) ==
    IF s # <<>> /\ s[Len(s)] \in Whitespace THEN RStrip(SubSeq(s, 1, Len(s) - 1)) ELSE s

RECURSIVE DigitsVal(_)
DigitsVal(s) == IF s = <<>> THEN 0 ELSE 10 * DigitsVal(SubSeq(s, 1, Len(s) - 1)) + DigitVal(s[Len(s)])

AllDigits(s) == \A i \in 1..Len(s) : IsDigit(s[i])

\* an unsigned decimal literal: digits, at most one ".", at least one digit
ParseUnsigned(s) ==
    LET dots == {i \in 1..Len(s) : s[i] = "."}
    IN  IF dots = {}
        THEN IF s # <<>> /\ AllDigits(s) THEN Normal(DigitsVal(s), 0) ELSE [t |-> "error"]
        ELSE IF Cardinality(dots) > 1 THEN [t |-> "error"]
        ELSE LET p == CHOOSE i \in dots : TRUE
                 ip == SubSeq(s, 1, p - 1)
                 fp == SubSeq(s, p + 1, Len(s))
             IN  IF AllDigits(ip) /\ AllDigits(fp) /\ Len(ip) + Len(fp) > 0
                 THEN Normal(DigitsVal(ip) * Pow10(Len(fp)) + DigitsVal(fp), Len(fp))
                 ELSE [t |-> "error"]

Negate(c) == IF c.t = "num" THEN Num(-c.n, c.k) ELSE c

\* pd.to_numeric on one cell: an empty text and "nan" give NaN, a float stays
ToNumericCell(c) ==
    CASE c.t = "num" -> Normal(c.n, c.k)
      [] c.t = "nan" -> NaN
      [] c.t = "str" ->
           IF c.s = <<>> THEN NaN
           ELSE LET s == RStrip(LStrip(c.s))
                IN  IF s = <<"n", "a", "n">> THEN NaN   \* nan
                    ELSE IF s # <<>> /\ Head(s) = "-" THEN Negate(ParseUnsigned(Tail(s)))
                    ELSE IF s # <<>> /\ Head(s) = "+" THEN ParseUnsigned(Tail(s))
                    ELSE ParseUnsigned(s)
      [] OTHER -> [t |-> "error"]

Failed(series) == \E i \in 1..Len(series) : series[i].t = "error"

---------------------------------------------------------------------------
(* validate_file.  A DataFrame is [columns |-> names, rows |-> rows]; a    *)
(* column name is [kind |-> "str" or "int", name |-> its text]; a row is   *)
(* the sequence of its cells, one for each column.                         *)

ColName(n) == [kind |-> "str", name |-> n]

expected_columns == <<ColName("date"), ColName("description"), ColName("category"), ColName("value")>>

\* the position of the column named c
ColIndex(d, c) == CHOOSE j \in 1..Len(d.columns) : d.columns[j] = ColName(c)

\* df[c]
Column(d, c) == [i \in 1..Len(d.rows) |-> d.rows[i][ColIndex(d, c)]]

\* df[c] = series
SetColumn(d, c, series) ==
    [d EXCEPT !.rows = [i \in 1..Len(d.rows) |-> [d.rows[i] EXCEPT ![ColIndex(d, c)] = series[i]]]]

\* the message of the column-name error is built with ', '.join(actual_columns),
\* which raises TypeError when a name is not a str
ColumnsError(actual_columns) ==
    IF \A i \in 1..Len(actual_columns) : actual_columns[i].kind = "str"
    THEN Raise("ValueError", "names", "Columns must be: date, description, category, value", actual_columns)
    ELSE Raise("TypeError", "names", "sequence item: expected str instance", actual_columns)

ToDatetime(series) == [i \in 1..Len(series) |-> ToDatetimeCell(series[i])]

ToNumeric(series) == [i \in 1..Len(series) |-> ToNumericCell(series[i])]

AsTypeStr(series) == [i \in 1..Len(series) |-> Str(AsStr(series[i]))]

\* the value block of validate_file (lines 131-139), on the frame d whose
\* date column is converted already: the result and the frame it leaves
ValidateValues(d) ==
    LET detected == detect_currency_symbol(Column(d, "value"))
    IN  IF detected.kind = "raise" THEN [ret |-> detected, df |-> d]
        ELSE
        LET currency_symbol == detected.value
            d1 == IF currency_symbol # None
                  THEN SetColumn(d, "value", strip_currency_symbols(Column(d, "value")))
                  ELSE d
            numeric == ToNumeric(Column(d1, "value"))
        IN  IF Failed(numeric)
            THEN [ret |-> Raise("ValueError", "value", "Invalid numeric values found in value column", <<>>),
                  df |-> d1]
            ELSE LET d2 == SetColumn(d1, "value", numeric)
                     d3 == SetColumn(d2, "description", AsTypeStr(Column(d2, "description")))
                     d4 == SetColumn(d3, "category", AsTypeStr(Column(d3, "category")))
                 IN  [ret |-> Return(currency_symbol), df |-> d4]

\* mutant of validate_file: the value block runs before the date check
validate_values_first(d) ==
    IF Len(d.columns) # 4
    THEN [ret |-> Raise("ValueError", "count", "File must have exactly 4 columns", <<Len(d.columns)>>),
          df |-> d]
    ELSE IF d.columns # expected_columns
    THEN [ret |-> ColumnsError(d.columns), df |-> d]
    ELSE IF Len(d.rows) = 0
    THEN [ret |-> Raise("ValueError", "empty", "File is empty or contains only header row", <<>>),
          df |-> d]
    ELSE LET r == ValidateValues(d)
             dates == ToDatetime(Column(d, "date"))
         IN  IF r.ret.kind = "raise" THEN r
             ELSE IF Failed(dates)
             THEN [ret |-> Raise("ValueError", "date", "Invalid dates found in date column", <<>>),
                   df |-> r.df]
             ELSE [ret |-> r.ret, df |-> SetColumn(r.df, "date", dates)]

\* validate_file(df): the result (the returned frame is the argument itself)
\* and the state in which it leaves the argument
validate_file(d) ==
    IF Len(d.columns) # 4
    THEN [ret |-> Raise("ValueError", "count", "File must have exactly 4 columns", <<Len(d.columns)>>),
          df |-> d]
    ELSE IF d.columns # expected_columns
    THEN [ret |-> ColumnsError(d.columns), df |-> d]
    ELSE IF Len(d.rows) = 0
    THEN [ret |-> Raise("ValueError", "empty", "File is empty or contains only header row", <<>>),
          df |-> d]
    ELSE LET dates == ToDatetime(Column(d, "date"))
         IN  IF Failed(dates)
             THEN [ret |-> Raise("ValueError", "date", "Invalid dates found in date column", <<>>),
                   df |-> d]
             ELSE ValidateValues(SetColumn(d, "date", dates))

---------------------------------------------------------------------------
(* The uploads the model tries. *)

Headers ==
    { expected_columns,
      <<ColName("date"), ColName("description"), ColName("value")>>,
      <<ColName("when"), ColName("desc"), ColName("amount")>>,
      <<ColName("date"), ColName("description"), ColName("category"), ColName("value"), ColName("note")>>,
      <<ColName("date"), ColName("description"), ColName("value"), ColName("category")>>,
      <<ColName("date"), ColName("desc"), ColName("category"), ColName("value")>>,
      <<ColName("date"), ColName("description"), ColName("category"), [kind |-> "int", name |-> "2026"]>> }

DateCells == { DateText(2026, 1, 15), DateText(2026, 2, 30), NaN }

ValueCells ==
    { Str(<<"-", "$", "1", ".", "5">>),   \* -$1.5
      Str(<<"€", "3">>),
      Str(<<"7">>),
      Str(<<"-", " ", "7">>),   \* - 7
      Str(<<"$", "x">>),
      Str(<<"$", "€", "5">>),   \* $€5
      Num(-25, 1),
      NaN }

\* a row of n cells: the date first and the value last
RowOf(n, date, value) ==
    [j \in 1..n |-> IF j = 1 THEN date
                    ELSE IF j = n THEN value
                    ELSE IF j = 2 THEN Str(<<"T">>) ELSE Str(<<"C">>)]

Frames ==
    { [columns |-> h, rows |-> r] :
        h \in Headers,
        r \in SeqsUpTo(DateCells \X ValueCells, MaxRows) }

Frame(f) == [columns |-> f.columns,
             rows |-> [i \in 1..Len(f.rows) |-> RowOf(Len(f.columns), f.rows[i][1], f.rows[i][2])]]

NoFrame == [columns |-> <<>>, rows |-> <<>>]

\* a session state without a key
NoSession == <<>>

Init ==
    /\ \E f \in Frames : df = Frame(f)
    /\ raw = df
    /\ pc = "idle"
    /\ ret = None
    /\ written = <<>>
    /\ tx = <<>>
    /\ out = None
    /\ arg = None
    /\ session = NoSession

\* validated, currency = validate_file(df)
ValidateFile ==
    /\ pc = "idle"
    /\ LET r == validate_file(df)
       IN  df' = r.df /\ ret' = r.ret
    /\ pc' = "validate_file"
    /\ UNCHANGED <<raw, written, tx, out, arg, session>>

\* detect_currency_symbol(df['value'])
DetectCurrencySymbol ==
    /\ pc = "idle"
    /\ df.columns = expected_columns
    /\ ret' = detect_currency_symbol(Column(df, "value"))
    /\ pc' = "detect_currency_symbol"
    /\ UNCHANGED <<df, raw, written, tx, out, arg, session>>

\* strip_currency_symbols(df['value'])
StripCurrencySymbols ==
    /\ pc = "idle"
    /\ df.columns = expected_columns
    /\ ret' = Return(strip_currency_symbols(Column(df, "value")))
    /\ pc' = "strip_currency_symbols"
    /\ UNCHANGED <<df, raw, written, tx, out, arg, session>>

Next == ValidateFile \/ DetectCurrencySymbol \/ StripCurrencySymbols

Spec == Init /\ [][Next]_vars

---------------------------------------------------------------------------
(* Amounts as an exporting program writes them: a signed number with one   *)
(* currency symbol, which the validator then has to read back.             *)

\* the digits of |n| / 10^k with k decimals
AmountText(n, k) ==
    LET a == IF n < 0 THEN -n ELSE n
    IN  NatText(a \div Pow10(k)) \o (IF k = 0 THEN <<>> ELSE <<".">> \o FracText(a % Pow10(k), k))

\* layout "sign_symbol" is -$120.50, "symbol_sign" is $-120.50 and "suffix" is
\* -120.50$; space is the text between the symbol and what it stands against
Format(w) ==
    LET sign == IF w.n < 0 THEN <<"-">> ELSE <<>>
        digits == AmountText(w.n, w.k)
    IN  CASE w.layout = "sign_symbol" -> sign \o <<w.symbol>> \o w.space \o digits
          [] w.layout = "symbol_sign" -> <<w.symbol>> \o w.space \o sign \o digits
          [] OTHER -> sign \o digits \o w.space \o <<w.symbol>>

WrittenAmounts ==
    [ n : {-12050, -450, -5, 0, 5, 8999, 300000},
      k : {0, 2},
      symbol : DetectPattern,
      layout : {"sign_symbol", "symbol_sign", "suffix"},
      space : {<<>>, <<" ">>} ]

InitStrip ==
    /\ \E w \in WrittenAmounts :
          /\ written = <<w>>
          /\ df = [columns |-> expected_columns,
                   rows |-> <<RowOf(4, DateText(2026, 1, 15), Str(Format(w)))>>]
    /\ raw = df
    /\ pc = "idle"
    /\ ret = None
    /\ tx = <<>>
    /\ out = None
    /\ arg = None
    /\ session = NoSession

SpecStrip == InitStrip /\ [][Next]_vars

---------------------------------------------------------------------------
(* The aggregations of calculations.py.  A transaction of the canonical    *)
(* set is [date |-> Timestamp, category |-> text, value |-> float].  A     *)
(* float is an integer number of the smallest unit, kept to MantissaBits   *)
(* significant bits: every sum is rounded to the nearest such number, ties *)
(* to even, as float64 rounds to 53 bits.                                  *)

Abs(x) == IF x < 0 THEN -x ELSE x

RECURSIVE Pow2(_)
Pow2(k) == IF k = 0 THEN 1 ELSE 2 * Pow2(k - 1)

\* the number of low bits that a of magnitude a >= 0 loses
RECURSIVE LostBits(_, _)
LostBits(a, e) == IF a < Pow2(MantissaBits + e) THEN e ELSE LostBits(a, e + 1)

\* x rounded to the nearest float
Fl(x) ==
    LET a == Abs(x)
        q == Pow2(LostBits(a, 0))
        m == a \div q
        r == a % q
        up == 2 * r > q \/ (2 * r = q /\ m % 2 = 1)
        rounded == (IF up THEN m + 1 ELSE m) * q
    IN  IF x < 0 THEN -rounded ELSE rounded

\* float addition
FAdd(a, b) == Fl(a + b)

\* Series.sum(): the values added up in row order, 0.0 when there is none
RECURSIVE FSum(_)
FSum(values) ==
    IF values = <<>> THEN 0
    ELSE FAdd(FSum(SubSeq(values, 1, Len(values) - 1)), values[Len(values)])

\* boolean indexing of a sequence: the members that satisfy the mask, in order
RECURSIVE Select(_, _)
Select(s, mask) ==
    IF s = <<>> THEN <<>>
    ELSE (IF mask[1] THEN <<Head(s)>> ELSE <<>>)
         \o Select(Tail(s), [i \in 1..(Len(s) - 1) |-> mask[i + 1]])

Values(rows) == [i \in 1..Len(rows) |-> rows[i].value]

\* the rows of a frame after frame[column] = values: the column is added, or
\* replaced when the frame has it
WithColumn(rows, column, values) ==
    [i \in 1..Len(rows) |->
        [f \in DOMAIN rows[i] \cup {column} |-> IF f = column THEN values[i] ELSE rows[i][f]]]

\* The frames of a call: the frame of the caller, the frame the function
\* works on, and whether these are one object.  At entry the parameter df
\* is the caller's frame.
Bind(rows) == [caller |-> rows, frame |-> rows, shared |-> TRUE]

\* mutant of Copy: the function goes on with the frame it has
NoCopy(m) == m

\* frame.copy(): the function goes on with a new object of the same rows
Copy(m) == [m EXCEPT !.shared = FALSE]

\* frame[mask]: a new object with the rows that satisfy the mask
Filter(m, mask) == [caller |-> m.caller, frame |-> Select(m.frame, mask), shared |-> FALSE]

\* frame[column] = values; the caller's frame takes it when it is the same object
Assign(m, column, values) ==
    LET assigned == WithColumn(m.frame, column, values)
    IN  [caller |-> IF m.shared THEN assigned ELSE m.caller,
         frame |-> assigned,
         shared |-> m.shared]

\* x[x > 0] and x[x < 0]
Positive(values) == Select(values, [i \in 1..Len(values) |-> values[i] > 0])
Negative(values) == Select(values, [i \in 1..Len(values) |-> values[i] < 0])

\* dt.to_period('M')
ToPeriod(ts) == <<ts.y, ts.m>>

\* the order of periods
PeriodLess(p, q) == p[1] < q[1] \/ (p[1] = q[1] /\ p[2] < q[2])

\* the order of the category texts of the model, as str compares them
CategoryOrder ==
    << <<"F", "o", "o", "d">>,   \* Food
       <<"R", "e", "n", "t">> >>   \* Rent

CategoryRank(c) == CHOOSE i \in 1..Len(CategoryOrder) : CategoryOrder[i] = c

CategoryLess(c, d) == CategoryRank(c) < CategoryRank(d)

\* the group keys of a groupby, sorted
RECURSIVE SortedPeriods(_)
SortedPeriods(S) ==
    IF S = {} THEN <<>>
    ELSE LET least == CHOOSE p \in S : \A q \in S \ {p} : PeriodLess(p, q)
         IN  <<least>> \o SortedPeriods(S \ {least})

KeyLess(k, l) == PeriodLess(k[1], l[1]) \/ (k[1] = l[1] /\ CategoryLess(k[2], l[2]))

RECURSIVE SortedKeys(_)
SortedKeys(S) ==
    IF S = {} THEN <<>>
    ELSE LET least == CHOOSE k \in S : \A l \in S \ {k} : KeyLess(k, l)
         IN  <<least>> \o SortedKeys(S \ {least})

\* the rows of one month, in row order
InMonth(rows, p) == Select(rows, [i \in 1..Len(rows) |-> ToPeriod(rows[i].date) = p])

\* mutant of InGroup: the rows of the category in every month
InGroupOfAllMonths(rows, k) ==
    Select(rows, [i \in 1..Len(rows) |-> rows[i].category = k[2]])

\* the rows of one month and category, in row order
InGroup(rows, k) ==
    Select(rows, [i \in 1..Len(rows) |-> ToPeriod(rows[i].date) = k[1] /\ rows[i].category = k[2]])

DataFrame(columns, rows) == [columns |-> columns, rows |-> rows]

MonthlyColumns == <<"month", "total_income", "total_expenses", "net_income">>

\* mutant of MonthlyRow: the expenses keep their sign
MonthlyRowSigned(rows, p) ==
    LET x == Values(InMonth(rows, p))
    IN  [month |-> p,
         total_income |-> FSum(Positive(x)),
         total_expenses |-> FSum(Negative(x)),
         net_income |-> FSum(x)]

\* the aggregation of one month's group
MonthlyRow(rows, p) ==
    LET x == Values(InMonth(rows, p))
    IN  [month |-> p,
         total_income |-> FSum(Positive(x)),
         total_expenses |-> Abs(FSum(Negative(x))),
         net_income |-> FSum(x)]

\* mutant of calculate_monthly_summary: the groups are left in the order in
\* which their months first occur in the rows
RECURSIVE FirstSeen(_, _)
FirstSeen(rows, seen) ==
    IF rows = <<>> THEN <<>>
    ELSE LET p == ToPeriod(Head(rows).date)
         IN  IF p \in seen THEN FirstSeen(Tail(rows), seen)
             ELSE <<p>> \o FirstSeen(Tail(rows), seen \cup {p})

monthly_summary_unsorted(rows) ==
    IF rows = <<>> THEN DataFrame(MonthlyColumns, <<>>)
    ELSE LET months == FirstSeen(rows, {})
         IN  DataFrame(MonthlyColumns, [i \in 1..Len(months) |-> MonthlyRow(rows, months[i])])

calculate_monthly_summary(rows) ==
    IF rows = <<>> THEN DataFrame(MonthlyColumns, <<>>)
    ELSE LET months == SortedPeriods({ToPeriod(rows[i].date) : i \in 1..Len(rows)})
         IN  DataFrame(MonthlyColumns, [i \in 1..Len(months) |-> MonthlyRow(rows, months[i])])

BreakdownColumns == <<"month", "category", "spending">>

\* mutant of Expenses: the filter keeps the rows that are not income
NotIncome(rows) == Select(rows, [i \in 1..Len(rows) |-> rows[i].value <= 0])

\* df[df['value'] < 0]
Expenses(rows) == Select(rows, [i \in 1..Len(rows) |-> rows[i].value < 0])

calculate_category_breakdown(rows) ==
    IF rows = <<>> THEN DataFrame(BreakdownColumns, <<>>)
    ELSE LET expenses == Expenses(rows)
         IN  IF expenses = <<>> THEN DataFrame(BreakdownColumns, <<>>)
             ELSE LET keys == SortedKeys({<<ToPeriod(expenses[i].date), expenses[i].category>> :
                                               i \in 1..Len(expenses)})
                  IN  DataFrame(BreakdownColumns,
                          [i \in 1..Len(keys) |->
                              [month |-> keys[i][1],
                               category |-> keys[i][2],
                               spending |->
                                   FSum([j \in 1..Len(InGroup(expenses, keys[i])) |->
                                            Abs(InGroup(expenses, keys[i])[j].value)])]])

TxDates == {Timestamp(2025, 12, 31), Timestamp(2026, 1, 1), Timestamp(2026, 1, 15)}

TxValues == {-3, 0, 1, 28}

Transactions == [date : TxDates, category : Range(CategoryOrder), value : TxValues]

InitAgg ==
    /\ tx \in SeqsUpTo(Transactions, MaxTx)
    /\ out = None
    /\ arg = None
    /\ session = NoSession
    /\ pc = "idle"
    /\ df = NoFrame
    /\ raw = NoFrame
    /\ ret = None
    /\ written = <<>>

\* monthly = calculate_monthly_summary(df)
CalculateMonthlySummary ==
    /\ pc = "idle"
    /\ out' = calculate_monthly_summary(tx)
    /\ pc' = "calculate_monthly_summary"
    /\ UNCHANGED <<df, raw, ret, written, tx, arg, session>>

\* breakdown = calculate_category_breakdown(df)
CalculateCategoryBreakdown ==
    /\ pc = "idle"
    /\ out' = calculate_category_breakdown(tx)
    /\ pc' = "calculate_category_breakdown"
    /\ UNCHANGED <<df, raw, ret, written, tx, arg, session>>

NextAgg == CalculateMonthlySummary \/ CalculateCategoryBreakdown

SpecAgg == InitAgg /\ [][NextAgg]_vars

\* transaction sets with expenses of different sizes, for the sums of the
\* category breakdown beside those of the monthly summary
SpendingValues == {-28, -3, 1}

SpendingTransactions ==
    [date : {Timestamp(2025, 12, 31), Timestamp(2026, 1, 1)},
     category : Range(CategoryOrder),
     value : SpendingValues]

InitSpending ==
    /\ tx \in SeqsUpTo(SpendingTransactions, MaxTx)
    /\ out = None
    /\ arg = None
    /\ session = NoSession
    /\ pc = "idle"
    /\ df = NoFrame
    /\ raw = NoFrame
    /\ ret = None
    /\ written = <<>>

SpecSpending == InitSpending /\ [][NextAgg]_vars

---------------------------------------------------------------------------
(* The rolling average of calculations.py.  A Series is a sequence of      *)
(* [month |-> period, value |-> v] in index order.  Sums are floats as     *)
(* above; a quotient is a float counted in 1/Resolution of the unit.       *)

Float(x) == [t |-> "float", v |-> x]

\* x / y for y > 0, rounded to the nearest multiple of 1/Resolution, ties to
\* even; the result counts multiples of 1/Resolution
FDiv(x, y) ==
    LET a == Abs(x) * Resolution
        m == a \div y
        r == a % y
        up == 2 * r > y \/ (2 * r = y /\ m % 2 = 1)
        rounded == IF up THEN m + 1 ELSE m
    IN  IF x < 0 THEN -rounded ELSE rounded

\* the absolute values of the rows of month p, in row order
AbsValues(expenses, p) ==
    [j \in 1..Len(InMonth(expenses, p)) |-> Abs(InMonth(expenses, p)[j].value)]

\* mutant of MonthlyExpenses: the series has an entry, 0.0 where nothing was
\* spent, for every calendar month from the first to the last
RECURSIVE MonthsFromTo(_, _)
MonthsFromTo(p, q) ==
    IF PeriodLess(q, p) THEN <<>>
    ELSE <<p>> \o MonthsFromTo(IF p[2] = 12 THEN <<p[1] + 1, 1>> ELSE <<p[1], p[2] + 1>>, q)

MonthlyExpensesResampled(expenses) ==
    LET months == SortedPeriods({ToPeriod(expenses[i].date) : i \in 1..Len(expenses)})
        calendar == MonthsFromTo(months[1], months[Len(months)])
    IN  [i \in 1..Len(calendar) |->
            [month |-> calendar[i], value |-> FSum(AbsValues(expenses, calendar[i]))]]

\* expenses.groupby('month')['abs_value'].sum(): an entry for each month of
\* the expenses, in ascending order
MonthlyExpenses(expenses) ==
    LET months == SortedPeriods({ToPeriod(expenses[i].date) : i \in 1..Len(expenses)})
    IN  [i \in 1..Len(months) |->
            [month |-> months[i], value |-> FSum(AbsValues(expenses, months[i]))]]

\* mutant of Rolling: min_periods = 1, a window that is not yet full is
\* averaged over what it holds
RollingMinPeriodsOne(series, window) ==
    [i \in 1..Len(series) |->
        LET first == IF i < window THEN 1 ELSE i - window + 1
        IN  [month |-> series[i].month,
             value |-> Float(FDiv(FSum([j \in 1..(i - first + 1) |-> series[first + j - 1].value]),
                                  i - first + 1))]]

\* Series.rolling(window).mean(): NaN until the window is full, then the mean
\* of the entry and the window - 1 entries before it
Rolling(series, window) ==
    [i \in 1..Len(series) |->
        [month |-> series[i].month,
         value |-> IF i < window THEN NaN
                   ELSE Float(FDiv(FSum([j \in 1..window |-> series[i - window + j].value]),
                                   window))]]

\* mutant of DropNa: the first entry with a value is dropped as well
DropNaAndNext(series) ==
    LET kept == Select(series, [i \in 1..Len(series) |-> series[i].value # NaN])
    IN  IF kept = <<>> THEN kept ELSE Tail(kept)

\* Series.dropna()
DropNa(series) == Select(series, [i \in 1..Len(series) |-> series[i].value # NaN])

calculate_rolling_average(rows, window) ==
    IF rows = <<>> THEN <<>>
    ELSE LET expenses == Expenses(rows)
         IN  IF expenses = <<>> THEN <<>>
             ELSE LET rolling == DropNa(Rolling(MonthlyExpenses(expenses), window))
                  IN  [i \in 1..Len(rolling) |->
                          [month |-> rolling[i].month, value |-> rolling[i].value.v]]

RollDates ==
    {Timestamp(2025, 11, 20), Timestamp(2025, 12, 31), Timestamp(2026, 1, 1), Timestamp(2026, 3, 15)}

RollValues == {-3, -1, 0, 2}

RollTransactions == [date : RollDates, category : {"Food"}, value : RollValues]

InitRoll ==
    /\ tx \in SeqsUpTo(RollTransactions, MaxRollTx)
    /\ out = None
    /\ arg = None
    /\ session = NoSession
    /\ pc = "idle"
    /\ df = NoFrame
    /\ raw = NoFrame
    /\ ret = None
    /\ written = <<>>

\* rolling = calculate_rolling_average(df, window)
CalculateRollingAverage ==
    /\ pc = "idle"
    /\ \E window \in 1..MaxWindow :
          /\ arg' = window
          /\ out' = calculate_rolling_average(tx, window)
    /\ pc' = "calculate_rolling_average"
    /\ UNCHANGED <<df, raw, ret, written, tx, session>>

NextRoll == CalculateRollingAverage

SpecRoll == InitRoll /\ [][NextRoll]_vars

---------------------------------------------------------------------------
(* The classifier of subcategory_classifier.py.  A row of its frame is     *)
(* [description |-> text, category |-> text, value |-> float] and has a    *)
(* subcategory once that column is added.  Labels are texts as well.       *)

UpperCase ==
    <<"A", "B", "C", "D", "E", "F", "G", "H", "I", "J", "K", "L", "M",
      "N", "O", "P", "Q", "R", "S", "T", "U", "V", "W", "X", "Y", "Z">>

LowerCase ==
    <<"a", "b", "c", "d", "e", "f", "g", "h", "i", "j", "k", "l", "m",
      "n", "o", "p", "q", "r", "s", "t", "u", "v", "w", "x", "y", "z">>

\* the lower-case letter of every upper-case letter
ToLower == [c \in Range(UpperCase) |-> LowerCase[CHOOSE i \in 1..Len(UpperCase) : UpperCase[i] = c]]

\* str.lower(), character by character
LowerChar(c) == IF c \in DOMAIN ToLower THEN ToLower[c] ELSE c

Lower(text) == [i \in 1..Len(text) |-> LowerChar(text[i])]

\* the classes \w and \s of re
WordChars == Range(UpperCase) \cup Range(LowerCase) \cup Range(Digits) \cup {"_"}

IsWordChar(c) == c \in WordChars

IsSpaceChar(c) == c \in Whitespace

\* re.sub(r'[^\w\s]', ' ', text)
ReplacePunctuation(text) ==
    [i \in 1..Len(text) |-> IF IsWordChar(text[i]) \/ IsSpaceChar(text[i]) THEN text[i] ELSE " "]

\* keyword in text
In(keyword, text) ==
    \E i \in 0..(Len(text) - Len(keyword)) : SubSeq(text, i + 1, i + Len(keyword)) = keyword

\* any(keyword in text for keyword in keywords)
AnyIn(keywords, text) == \E k \in 1..Len(keywords) : In(keywords[k], text)

Groceries == <<"G", "r", "o", "c", "e", "r", "i", "e", "s">>

OtherFoodSources == <<"O", "t", "h", "e", "r", " ", "F", "o", "o", "d", " ", "S", "o", "u", "r", "c", "e", "s">>

grocery_keywords ==
    << <<"g", "r", "o", "c", "e", "r", "y">>,   \* grocery
       <<"g", "r", "o", "c", "e", "r", "i", "e", "s">>,   \* groceries
       <<"s", "u", "p", "e", "r", "m", "a", "r", "k", "e", "t">>,   \* supermarket
       <<"m", "a", "r", "k", "e", "t">>,   \* market
       <<"s", "t", "o", "r", "e">>,   \* store
       <<"f", "o", "o", "d", " ", "s", "t", "o", "r", "e">> >>   \* food store

\* mutant of classify_food_subcategory: the description is not lower-cased
classify_food_case_sensitive(description) ==
    LET description_lower == ReplacePunctuation(description)
    IN  IF AnyIn(grocery_keywords, description_lower) THEN Groceries ELSE OtherFoodSources

classify_food_subcategory(description) ==
    LET description_lower == ReplacePunctuation(Lower(description))
    IN  IF AnyIn(grocery_keywords, description_lower) THEN Groceries ELSE OtherFoodSources

PublicTransportation == <<"P", "u", "b", "l", "i", "c", " ", "T", "r", "a", "n", "s", "p", "o", "r", "t", "a", "t", "i", "o", "n">>

PrivateTransportation == <<"P", "r", "i", "v", "a", "t", "e", " ", "T", "r", "a", "n", "s", "p", "o", "r", "t", "a", "t", "i", "o", "n">>

public_transport_keywords ==
    << <<"b", "u", "s">>,   \* bus
       <<"m", "e", "t", "r", "o">>,   \* metro
       <<"s", "u", "b", "w", "a", "y">>,   \* subway
       <<"t", "r", "a", "i", "n">>,   \* train
       <<"t", "r", "a", "m">>,   \* tram
       <<"t", "r", "a", "n", "s", "i", "t">>,   \* transit
       <<"r", "a", "i", "l">>,   \* rail
       <<"m", "e", "t", "r", "o", " ", "c", "a", "r", "d">>,   \* metro card
       <<"t", "r", "a", "n", "s", "i", "t", " ", "p", "a", "s", "s">>,   \* transit pass
       <<"p", "u", "b", "l", "i", "c", " ", "t", "r", "a", "n", "s", "p", "o", "r", "t">>,   \* public transport
       <<"r", "a", "i", "l", " ", "p", "a", "s", "s">> >>   \* rail pass

\* mutant of classify_transportation_subcategory: the punctuation is left in
\* the description
classify_transportation_punctuated(description) ==
    LET description_lower == Lower(description)
    IN  IF AnyIn(public_transport_keywords, description_lower)
        THEN PublicTransportation ELSE PrivateTransportation

classify_transportation_subcategory(description) ==
    LET description_lower == ReplacePunctuation(Lower(description))
    IN  IF AnyIn(public_transport_keywords, description_lower)
        THEN PublicTransportation ELSE PrivateTransportation

OtherSubscriptions == <<"O", "t", "h", "e", "r", " ", "S", "u", "b", "s", "c", "r", "i", "p", "t", "i", "o", "n", "s">>

\* the dict of classify_hobbies_subcategory, in the order of its items
subcategory_keywords ==
    << [subcategory |-> <<"S", "t", "r", "e", "a", "m", "i", "n", "g">>,   \* Streaming
        keywords |->
          << <<"s", "t", "r", "e", "a", "m", "i", "n", "g">>,   \* streaming
             <<"m", "u", "s", "i", "c", " ", "s", "u", "b", "s", "c", "r", "i", "p", "t", "i", "o", "n">>,   \* music subscription
             <<"v", "i", "d", "e", "o", " ", "s", "u", "b", "s", "c", "r", "i", "p", "t", "i", "o", "n">> >>],   \* video subscription
       [subcategory |-> <<"F", "i", "t", "n", "e", "s", "s">>,   \* Fitness
        keywords |->
          << <<"g", "y", "m">>,   \* gym
             <<"f", "i", "t", "n", "e", "s", "s">>,   \* fitness
             <<"y", "o", "g", "a">>,   \* yoga
             <<"p", "i", "l", "a", "t", "e", "s">>,   \* pilates
             <<"c", "r", "o", "s", "s", "f", "i", "t">>,   \* crossfit
             <<"w", "o", "r", "k", "o", "u", "t">>,   \* workout
             <<"h", "e", "a", "l", "t", "h", " ", "c", "l", "u", "b">>,   \* health club
             <<"s", "p", "o", "r", "t", "s", " ", "c", "l", "u", "b">> >>],   \* sports club
       [subcategory |-> <<"G", "a", "m", "i", "n", "g">>,   \* Gaming
        keywords |->
          << <<"g", "a", "m", "e", " ", "p", "a", "s", "s">>,   \* game pass
             <<"g", "a", "m", "i", "n", "g">>,   \* gaming
             <<"g", "a", "m", "e", " ", "s", "u", "b", "s", "c", "r", "i", "p", "t", "i", "o", "n">>,   \* game subscription
             <<"v", "i", "d", "e", "o", " ", "g", "a", "m", "e">> >>],   \* video game
       [subcategory |-> <<"E", "d", "u", "c", "a", "t", "i", "o", "n", "a", "l">>,   \* Educational
        keywords |->
          << <<"o", "n", "l", "i", "n", "e", " ", "c", "o", "u", "r", "s", "e">>,   \* online course
             <<"l", "e", "a", "r", "n", "i", "n", "g">>,   \* learning
             <<"e", "d", "u", "c", "a", "t", "i", "o", "n">>,   \* education
             <<"c", "o", "u", "r", "s", "e">> >>],   \* course
       [subcategory |-> <<"B", "o", "o", "k", "s">>,   \* Books
        keywords |->
          << <<"b", "o", "o", "k">>,   \* book
             <<"b", "o", "o", "k", "s">>,   \* books
             <<"r", "e", "a", "d", "i", "n", "g">>,   \* reading
             <<"a", "u", "d", "i", "o", "b", "o", "o", "k">>,   \* audiobook
             <<"e", "b", "o", "o", "k">>,   \* ebook
             <<"m", "a", "g", "a", "z", "i", "n", "e">> >>],   \* magazine
       [subcategory |-> <<"N", "e", "w", "s", " ", "&", " ", "M", "e", "d", "i", "a">>,   \* News & Media
        keywords |->
          << <<"n", "e", "w", "s">>,   \* news
             <<"n", "e", "w", "s", "p", "a", "p", "e", "r">>,   \* newspaper
             <<"p", "u", "b", "l", "i", "c", "a", "t", "i", "o", "n">> >>],   \* publication
       [subcategory |-> <<"P", "r", "o", "f", "e", "s", "s", "i", "o", "n", "a", "l">>,   \* Professional
        keywords |->
          << <<"c", "r", "e", "a", "t", "i", "v", "e", " ", "c", "l", "o", "u", "d">>,   \* creative cloud
             <<"w", "o", "r", "k", "s", "p", "a", "c", "e">>,   \* workspace
             <<"c", "l", "o", "u", "d", " ", "s", "t", "o", "r", "a", "g", "e">>,   \* cloud storage
             <<"p", "r", "o", "d", "u", "c", "t", "i", "v", "i", "t", "y">> >>] >>   \* productivity

\* the subcategory of the first of the groups with a keyword in the text
RECURSIVE FirstGroup(_, _)
FirstGroup(groups, text) ==
    IF groups = <<>> THEN OtherSubscriptions
    ELSE IF AnyIn(Head(groups).keywords, text) THEN Head(groups).subcategory
         ELSE FirstGroup(Tail(groups), text)

\* mutant of classify_hobbies_subcategory: the groups are tried from the
\* last to the first
Reversed(s) == [i \in 1..Len(s) |-> s[Len(s) + 1 - i]]

classify_hobbies_last_group(description) ==
    FirstGroup(Reversed(subcategory_keywords), ReplacePunctuation(Lower(description)))

classify_hobbies_subcategory(description) ==
    FirstGroup(subcategory_keywords, ReplacePunctuation(Lower(description)))

food_patterns == << <<"f", "o", "o", "d">>, <<"g", "r", "o", "c", "e", "r", "i", "e", "s">>, <<"d", "i", "n", "i", "n", "g">> >>

transport_patterns == << <<"t", "r", "a", "n", "s", "p", "o", "r", "t">> >>

hobbies_patterns ==
    << <<"h", "o", "b", "b", "i", "e", "s">>,   \* hobbies
       <<"s", "u", "b", "s", "c", "r", "i", "p", "t", "i", "o", "n">>,   \* subscription
       <<"e", "n", "t", "e", "r", "t", "a", "i", "n", "m", "e", "n", "t">> >>   \* entertainment

\* mutant of classify_row: the transport patterns are tried before the food
\* patterns
classify_row_transport_first(row) ==
    LET category_lower == Lower(row.category)
    IN  IF AnyIn(transport_patterns, category_lower)
        THEN classify_transportation_subcategory(row.description)
        ELSE IF AnyIn(food_patterns, category_lower)
        THEN classify_food_subcategory(row.description)
        ELSE IF AnyIn(hobbies_patterns, category_lower)
        THEN classify_hobbies_subcategory(row.description)
        ELSE row.category

\* mutant of classify_row: a category without a ruleset is passed on in
\* lower case
classify_row_lowered(row) ==
    LET category_lower == Lower(row.category)
    IN  IF AnyIn(food_patterns, category_lower)
        THEN classify_food_subcategory(row.description)
        ELSE IF AnyIn(transport_patterns, category_lower)
        THEN classify_transportation_subcategory(row.description)
        ELSE IF AnyIn(hobbies_patterns, category_lower)
        THEN classify_hobbies_subcategory(row.description)
        ELSE category_lower

classify_row(row) ==
    LET category_lower == Lower(row.category)
    IN  IF AnyIn(food_patterns, category_lower)
        THEN classify_food_subcategory(row.description)
        ELSE IF AnyIn(transport_patterns, category_lower)
        THEN classify_transportation_subcategory(row.description)
        ELSE IF AnyIn(hobbies_patterns, category_lower)
        THEN classify_hobbies_subcategory(row.description)
        ELSE row.category

\* df_copy with the subcategory column
WithSubcategory(rows) ==
    WithColumn(rows, "subcategory", [i \in 1..Len(rows) |-> classify_row(rows[i])])

add_subcategory_column(rows) ==
    IF rows = <<>> THEN Raise("ValueError", "empty", "DataFrame cannot be empty", <<>>)
    ELSE Return(WithSubcategory(rows))

\* descriptions of transactions
Descriptions ==
    { <<"M", "e", "t", "r", "o", " ", "T", "r", "a", "n", "s", "i", "t", " ", "P", "a", "s", "s">>,   \* Metro Transit Pass
      <<"M", "E", "T", "R", "O", " ", "T", "R", "A", "N", "S", "I", "T", " ", "P", "A", "S", "S">>,   \* METRO TRANSIT PASS
      <<"m", "e", "t", "r", "o", " ", "t", "r", "a", "n", "s", "i", "t", " ", "p", "a", "s", "s">>,   \* metro transit pass
      <<"G", "a", "s", " ", "S", "t", "a", "t", "i", "o", "n">>,   \* Gas Station
      <<"G", "A", "S", " ", "S", "T", "A", "T", "I", "O", "N">>,   \* GAS STATION
      <<"g", "a", "s", " ", "s", "t", "a", "t", "i", "o", "n">>,   \* gas station
      <<"B", "u", "s", " ", "F", "a", "r", "e">>,   \* Bus Fare
      <<"B", "u", "s", "i", "n", "e", "s", "s", " ", "L", "u", "n", "c", "h">>,   \* Business Lunch
      <<"P", "u", "b", "l", "i", "c", "-", "T", "r", "a", "n", "s", "p", "o", "r", "t">>,   \* Public-Transport
      <<"U", "b", "e", "r">>,   \* Uber
      <<"C", "o", "f", "f", "e", "e", " ", "S", "h", "o", "p">>,   \* Coffee Shop
      <<"F", "a", "s", "t", " ", "F", "o", "o", "d">>,   \* Fast Food
      <<"F", "o", "o", "d", " ", "S", "t", "o", "r", "e">>,   \* Food Store
      <<"S", "U", "P", "E", "R", "M", "A", "R", "K", "E", "T">>,   \* SUPERMARKET
      <<"G", "r", "o", "c", "e", "r", "y">>,   \* Grocery
      <<"S", "t", "r", "e", "a", "m", "i", "n", "g", " ", "S", "e", "r", "v", "i", "c", "e">>,   \* Streaming Service
      <<"G", "y", "m", " ", "S", "t", "r", "e", "a", "m", "i", "n", "g">>,   \* Gym Streaming
      <<"R", "e", "a", "d", "i", "n", "g", " ", "C", "o", "u", "r", "s", "e">>,   \* Reading Course
      <<"N", "e", "w", "s", " ", "M", "a", "g", "a", "z", "i", "n", "e">>,   \* News Magazine
      <<"G", "a", "m", "e", "-", "P", "a", "s", "s">>,   \* Game-Pass
      <<"G", "a", "m", "e", "_", "P", "a", "s", "s">>,   \* Game_Pass
      <<"C", "l", "o", "u", "d", " ", "S", "t", "o", "r", "a", "g", "e">>,   \* Cloud Storage
      <<"N", "e", "t", "f", "l", "i", "x">>,   \* Netflix
      <<>> }

\* categories of transactions
Categories ==
    { <<"F", "O", "O", "D">>,   \* FOOD
      <<"G", "r", "o", "c", "e", "r", "i", "e", "s">>,   \* Groceries
      <<"D", "i", "n", "i", "n", "g", " ", "O", "u", "t">>,   \* Dining Out
      <<"T", "r", "a", "n", "s", "p", "o", "r", "t">>,   \* Transport
      <<"H", "o", "b", "b", "i", "e", "s">>,   \* Hobbies
      <<"s", "u", "b", "s", "c", "r", "i", "p", "t", "i", "o", "n", "s">>,   \* subscriptions
      <<"E", "n", "t", "e", "r", "t", "a", "i", "n", "m", "e", "n", "t">>,   \* Entertainment
      <<"T", "r", "a", "n", "s", "p", "o", "r", "t", " ", "&", " ", "F", "o", "o", "d">>,   \* Transport & Food
      <<"E", "n", "t", "e", "r", "t", "a", "i", "n", "m", "e", "n", "t", "/", "T", "r", "a", "n", "s", "p", "o", "r", "t">>,   \* Entertainment/Transport
      <<"H", "o", "b", "b", "i", "e", "s", " ", "&", " ", "D", "i", "n", "i", "n", "g">>,   \* Hobbies & Dining
      <<"R", "e", "n", "t">>,   \* Rent
      <<"U", "T", "I", "L", "I", "T", "I", "E", "S">>,   \* UTILITIES
      <<"T", "r", "a", "n", "s", "-", "p", "o", "r", "t">> }   \* Trans-port

ClassifierRows == [description : Descriptions, category : Categories, value : {-3}]

InitClassifier ==
    /\ tx \in SeqsUpTo(ClassifierRows, MaxClassifierRows)
    /\ out = None
    /\ arg = None
    /\ session = NoSession
    /\ pc = "idle"
    /\ df = NoFrame
    /\ raw = NoFrame
    /\ ret = None
    /\ written = <<>>

\* add_subcategory_column(df)
AddSubcategoryColumn ==
    /\ pc = "idle"
    /\ ret' = add_subcategory_column(tx)
    /\ pc' = "add_subcategory_column"
    /\ UNCHANGED <<df, raw, written, tx, out, arg, session>>

\* classify_food_subcategory(description), for the description of a row
ClassifyFoodSubcategory ==
    /\ pc = "idle"
    /\ \E i \in 1..Len(tx) :
          /\ arg' = tx[i].description
          /\ ret' = Return(classify_food_subcategory(tx[i].description))
    /\ pc' = "classify_food_subcategory"
    /\ UNCHANGED <<df, raw, written, tx, out, session>>

\* classify_transportation_subcategory(description), for the description of a row
ClassifyTransportationSubcategory ==
    /\ pc = "idle"
    /\ \E i \in 1..Len(tx) :
          /\ arg' = tx[i].description
          /\ ret' = Return(classify_transportation_subcategory(tx[i].description))
    /\ pc' = "classify_transportation_subcategory"
    /\ UNCHANGED <<df, raw, written, tx, out, session>>

\* classify_hobbies_subcategory(description), for the description of a row
ClassifyHobbiesSubcategory ==
    /\ pc = "idle"
    /\ \E i \in 1..Len(tx) :
          /\ arg' = tx[i].description
          /\ ret' = Return(classify_hobbies_subcategory(tx[i].description))
    /\ pc' = "classify_hobbies_subcategory"
    /\ UNCHANGED <<df, raw, written, tx, out, session>>

NextClassifier ==
    \/ AddSubcategoryColumn
    \/ ClassifyFoodSubcategory
    \/ ClassifyTransportationSubcategory
    \/ ClassifyHobbiesSubcategory

SpecClassifier == InitClassifier /\ [][NextClassifier]_vars

---------------------------------------------------------------------------
(* The subcategory breakdown of subcategory_classifier.py.  Its amounts    *)
(* are floats as above and its percentages quotients, counted in           *)
(* 1/Resolution of a percent.                                              *)

SubcategoryColumns == <<"subcategory", "amount", "percentage">>

\* the characters of the model's texts in the order of their code points
CharOrder ==
    <<" ", "&", "(", ")", "-", "/">> \o Digits \o UpperCase \o <<"_">> \o LowerCase

CodePoint == [c \in Range(CharOrder) |-> CHOOSE i \in 1..Len(CharOrder) : CharOrder[i] = c]

\* a < b for str
TextLess(a, b) ==
    \E i \in 1..(Len(a) + 1) :
        /\ i <= Len(b)
        /\ SubSeq(a, 1, i - 1) = SubSeq(b, 1, i - 1)
        /\ (i = Len(a) + 1 \/ CodePoint[a[i]] < CodePoint[b[i]])

\* the group keys of a groupby on a text column, sorted
RECURSIVE SortedTexts(_)
SortedTexts(S) ==
    IF S = {} THEN <<>>
    ELSE LET least == CHOOSE a \in S : \A b \in S \ {a} : TextLess(a, b)
         IN  <<least>> \o SortedTexts(S \ {least})

\* Series.str.contains takes its argument for a regular expression.  Of the
\* syntax of regular expressions the patterns of the model hold the group
\* brackets only.  OpenGroups is the number of groups left open at the end
\* of the pattern, -1 when a ")" closes no group.
RECURSIVE OpenGroups(_, _)
OpenGroups(pattern, depth) ==
    IF pattern = <<>> THEN depth
    ELSE IF Head(pattern) = "(" THEN OpenGroups(Tail(pattern), depth + 1)
    ELSE IF Head(pattern) = ")"
         THEN (IF depth = 0 THEN -1 ELSE OpenGroups(Tail(pattern), depth - 1))
    ELSE OpenGroups(Tail(pattern), depth)

\* re.compile(pattern) succeeds
Compiles(pattern) == OpenGroups(pattern, 0) = 0

\* the text that a pattern of characters and groups matches
RECURSIVE Matched(_)
Matched(pattern) ==
    IF pattern = <<>> THEN <<>>
    ELSE (IF Head(pattern) \in {"(", ")"} THEN <<>> ELSE <<Head(pattern)>>) \o Matched(Tail(pattern))

\* Series.str.contains(pat, na=False) on one text: re.search(pat, text)
StrContains(text, pat) == In(Matched(pat), text)

\* 'subcategory' in df.columns
HasSubcategory(rows) == \A i \in 1..Len(rows) : "subcategory" \in DOMAIN rows[i]

\* df['category'].str.lower().str.contains(category.lower(), na=False)
CategoryMask(rows, category) ==
    [i \in 1..Len(rows) |-> StrContains(Lower(rows[i].category), Lower(category))]

\* the absolute values of the expenses of one subcategory, in row order
SubcategoryValues(expenses, s) ==
    LET group == Select(expenses, [i \in 1..Len(expenses) |-> expenses[i].subcategory = s])
    IN  [j \in 1..Len(group) |-> Abs(group[j].value)]

\* expenses.groupby('subcategory')['abs_value'].sum().reset_index()
SubcategoryTotals(expenses) ==
    LET keys == SortedTexts({expenses[i].subcategory : i \in 1..Len(expenses)})
    IN  [i \in 1..Len(keys) |->
            [subcategory |-> keys[i], amount |-> FSum(SubcategoryValues(expenses, keys[i]))]]

\* mutant of WithPercentage: the share is not multiplied by 100
WithShare(subcategory_totals) ==
    LET category_total == FSum([i \in 1..Len(subcategory_totals) |-> subcategory_totals[i].amount])
    IN  [i \in 1..Len(subcategory_totals) |->
            [subcategory |-> subcategory_totals[i].subcategory,
             amount |-> subcategory_totals[i].amount,
             percentage |-> IF category_total > 0
                            THEN FDiv(subcategory_totals[i].amount, category_total)
                            ELSE 0]]

\* the totals with their percentage column
WithPercentage(subcategory_totals) ==
    LET category_total == FSum([i \in 1..Len(subcategory_totals) |-> subcategory_totals[i].amount])
    IN  [i \in 1..Len(subcategory_totals) |->
            [subcategory |-> subcategory_totals[i].subcategory,
             amount |-> subcategory_totals[i].amount,
             percentage |-> IF category_total > 0
                            THEN FDiv(subcategory_totals[i].amount, category_total) * 100
                            ELSE 0]]

\* sort_values('amount', ascending=False): the arrangements of the rows in
\* descending order of amount; the default sort is not stable, the order of
\* rows with equal amounts is any
SortValues(rows) ==
    { [i \in 1..Len(rows) |-> rows[p[i]]] :
        p \in {q \in Permutations(1..Len(rows)) :
                  \A i \in 1..(Len(rows) - 1) : rows[q[i]].amount >= rows[q[i + 1]].amount} }

\* calculate_subcategory_breakdown(df, category): the outcomes of the call
calculate_subcategory_breakdown(rows, category) ==
    IF rows = <<>> THEN {Raise("ValueError", "empty", "DataFrame cannot be empty", <<>>)}
    ELSE IF ~Compiles(Lower(category))
    THEN {Raise("re.error", "pattern", "unbalanced parenthesis", <<>>)}
    ELSE LET d == IF HasSubcategory(rows) THEN rows ELSE add_subcategory_column(rows).value
             category_mask == CategoryMask(d, category)
             expenses == Select(d, [i \in 1..Len(d) |-> d[i].value < 0 /\ category_mask[i]])
         IN  IF expenses = <<>> THEN {Return(DataFrame(SubcategoryColumns, <<>>))}
             ELSE {Return(DataFrame(SubcategoryColumns, sorted)) :
                      sorted \in SortValues(WithPercentage(SubcategoryTotals(expenses)))}

BreakdownDescriptions ==
    { <<"M", "a", "r", "k", "e", "t">>,   \* Market
      <<"C", "a", "f", "e">> }   \* Cafe

BreakdownCategories ==
    { <<"F", "o", "o", "d">>,   \* Food
      <<"F", "o", "o", "d", " ", "(", "B", "a", "r", ")">>,   \* Food (Bar)
      <<"R", "e", "n", "t">> }   \* Rent

BreakdownValues == {-2, -1, 0}

\* the category arguments of calculate_subcategory_breakdown
CategoryArguments ==
    { <<"f", "o", "o", "d">>,   \* food
      <<"F", "O", "O", "D">>,   \* FOOD
      <<"F", "o", "o", "d", " ", "(", "B", "a", "r", ")">>,   \* Food (Bar)
      <<"B", "a", "r", ")">>,   \* Bar)
      <<"e">>,   \* e
      <<>> }   \* the empty text

BreakdownRows ==
    [description : BreakdownDescriptions, category : BreakdownCategories, value : BreakdownValues]

\* the frame is handed over without or with its subcategory column
InitBreakdown ==
    /\ \E rows \in SeqsUpTo(BreakdownRows, MaxBreakdownRows) :
          tx \in {rows, WithSubcategory(rows)}
    /\ out = None
    /\ arg = None
    /\ session = NoSession
    /\ pc = "idle"
    /\ df = NoFrame
    /\ raw = NoFrame
    /\ ret = None
    /\ written = <<>>

\* breakdown = calculate_subcategory_breakdown(df, category)
CalculateSubcategoryBreakdown ==
    /\ pc = "idle"
    /\ \E category \in CategoryArguments :
          /\ arg' = category
          /\ ret' \in calculate_subcategory_breakdown(tx, category)
    /\ pc' = "calculate_subcategory_breakdown"
    /\ UNCHANGED <<df, raw, written, tx, out, session>>

----------------------------------------------------------------------------
(* get_all_category_breakdowns (subcategory_classifier.py).  The dictionary *)
(* it returns is a function from the category names that are its keys.     *)

\* expenses['category'].unique(), as a set
UniqueCategories(rows) == {rows[i].category : i \in {j \in 1..Len(rows) : rows[j].value < 0}}

\* get_all_category_breakdowns(df): the possible outcomes; each category of
\* an expense is handed to calculate_subcategory_breakdown as the filter, and
\* its breakdown is stored when it has a row
get_all_category_breakdowns(rows) ==
    IF rows = <<>> THEN {Raise("ValueError", "empty", "DataFrame cannot be empty", <<>>)}
    ELSE LET df_with_subcategory == add_subcategory_column(rows).value
             unique_categories == UniqueCategories(df_with_subcategory)
             breakdown(c) == calculate_subcategory_breakdown(df_with_subcategory, c)
         IN  IF \E c \in unique_categories : \E o \in breakdown(c) : o.kind = "raise"
             THEN UNION {{o \in breakdown(c) : o.kind = "raise"} : c \in unique_categories}
             ELSE LET keys == {c \in unique_categories :
                                  \A o \in breakdown(c) : o.value.rows # <<>>}
                  IN  {Return(breakdowns) :
                          breakdowns \in
                              {b \in [keys -> UNION {{o.value : o \in breakdown(c)} : c \in keys}] :
                                  \A c \in keys : Return(b[c]) \in breakdown(c)}}

\* breakdowns = get_all_category_breakdowns(df)
GetAllCategoryBreakdowns ==
    /\ pc = "idle"
    /\ ret' \in get_all_category_breakdowns(tx)
    /\ arg' = None
    /\ pc' = "get_all_category_breakdowns"
    /\ UNCHANGED <<df, raw, written, tx, out, session>>

NextAllBreakdowns == GetAllCategoryBreakdowns

NextBreakdown == CalculateSubcategoryBreakdown \/ AddSubcategoryColumn

SpecBreakdown == InitBreakdown /\ [][NextBreakdown]_vars

SpecAllBreakdowns == InitBreakdown /\ [][NextAllBreakdowns]_vars

---------------------------------------------------------------------------
(* calculate_financial_metrics (metrics.py) and calculate_current_balance  *)
(* (calculations.py).  The mean is a quotient and counts multiples of      *)
(* 1/Resolution, as the rolling mean does.                                 *)

\* the month names of strftime's %B
MonthNames ==
   << <<"J", "a", "n", "u", "a", "r", "y">>,   \* January
      <<"F", "e", "b", "r", "u", "a", "r", "y">>,   \* February
      <<"M", "a", "r", "c", "h">>,   \* March
      <<"A", "p", "r", "i", "l">>,   \* April
      <<"M", "a", "y">>,   \* May
      <<"J", "u", "n", "e">>,   \* June
      <<"J", "u", "l", "y">>,   \* July
      <<"A", "u", "g", "u", "s", "t">>,   \* August
      <<"S", "e", "p", "t", "e", "m", "b", "e", "r">>,   \* September
      <<"O", "c", "t", "o", "b", "e", "r">>,   \* October
      <<"N", "o", "v", "e", "m", "b", "e", "r">>,   \* November
      <<"D", "e", "c", "e", "m", "b", "e", "r">> >>   \* December

\* Period.strftime('%B %Y')
StrfTime(p) == MonthNames[p[2]] \o <<" ">> \o NatText(p[1])

\* monthly['net_income']
NetIncome(monthly) == [i \in 1..Len(monthly.rows) |-> monthly.rows[i].net_income]

\* Series.max() and Series.min()
Max(series) == CHOOSE x \in Range(series) : \A y \in Range(series) : y <= x
Min(series) == CHOOSE x \in Range(series) : \A y \in Range(series) : x <= y

\* mutant of idxmax: the last of the rows that hold the maximum
idxmax_last(series) ==
    CHOOSE i \in 1..Len(series) :
        series[i] = Max(series) /\ \A j \in (i + 1)..Len(series) : series[j] # Max(series)

\* Series.idxmax(): the label of the first row that holds the maximum (the
\* labels of the monthly summary are the positions of its rows)
idxmax(series) ==
    CHOOSE i \in 1..Len(series) :
        series[i] = Max(series) /\ \A j \in 1..(i - 1) : series[j] # Max(series)

\* Series.idxmin()
idxmin(series) ==
    CHOOSE i \in 1..Len(series) :
        series[i] = Min(series) /\ \A j \in 1..(i - 1) : series[j] # Min(series)

\* Series.mean() of a series with a row
Mean(series) == FDiv(FSum(series), Len(series))

\* mutant of current_balance: the income alone is added up
current_balance_of_income(rows) == FSum(Positive(Values(rows)))

\* current_balance = df['value'].sum()
current_balance(rows) == FSum(Values(rows))

\* calculate_current_balance(df)
calculate_current_balance(rows) == IF rows = <<>> THEN 0 ELSE FSum(Values(rows))

\* the dictionary that calculate_financial_metrics returns: average_monthly_savings
\* counts multiples of 1/Resolution, the other numbers are floats
Metrics(rows, monthly) ==
    LET net_income == NetIncome(monthly)
        best_month_idx == idxmax(net_income)
        worst_month_idx == idxmin(net_income)
    IN  [current_balance |-> current_balance(rows),
         average_monthly_savings |-> Mean(net_income),
         best_month |-> [month |-> StrfTime(monthly.rows[best_month_idx].month),
                         net_income |-> Max(net_income)],
         worst_month |-> [month |-> StrfTime(monthly.rows[worst_month_idx].month),
                          net_income |-> Min(net_income)]]

\* mutant of calculate_financial_metrics: an empty monthly summary gives a
\* dictionary without an average and without months
calculate_financial_metrics_of_nothing(rows, monthly) ==
    IF monthly.rows = <<>>
    THEN Return([current_balance |-> current_balance(rows),
                 average_monthly_savings |-> NaN,
                 best_month |-> None,
                 worst_month |-> None])
    ELSE Return(Metrics(rows, monthly))

\* calculate_financial_metrics(df, monthly): idxmax() of a series without a
\* row raises ValueError
calculate_financial_metrics(rows, monthly) ==
    IF monthly.rows = <<>>
    THEN Raise("ValueError", "empty", "attempt to get argmax of an empty sequence", <<>>)
    ELSE Return(Metrics(rows, monthly))

MetricsDates == {Timestamp(2025, 12, 31), Timestamp(2026, 1, 1), Timestamp(2026, 2, 28)}

MetricsValues == {-3, 1, 28}

MetricsTransactions == [date : MetricsDates, value : MetricsValues]

InitMetrics ==
    /\ tx \in SeqsUpTo(MetricsTransactions, MaxMetricsTx)
    /\ out = None
    /\ arg = None
    /\ session = NoSession
    /\ pc = "idle"
    /\ df = NoFrame
    /\ raw = NoFrame
    /\ ret = None
    /\ written = <<>>

\* metrics = calculate_financial_metrics(df, monthly), with the monthly
\* summary of df or with a monthly summary that has no row
CalculateFinancialMetrics ==
    /\ pc = "idle"
    /\ \E monthly \in {calculate_monthly_summary(tx), DataFrame(MonthlyColumns, <<>>)} :
          /\ arg' = monthly
          /\ ret' = calculate_financial_metrics(tx, monthly)
    /\ pc' = "calculate_financial_metrics"
    /\ UNCHANGED <<df, raw, written, tx, out, session>>

\* balance = calculate_current_balance(df)
CalculateCurrentBalance ==
    /\ pc = "idle"
    /\ out' = calculate_current_balance(tx)
    /\ pc' = "calculate_current_balance"
    /\ UNCHANGED <<df, raw, ret, written, tx, arg, session>>

NextMetrics == CalculateFinancialMetrics \/ CalculateCurrentBalance

SpecMetrics == InitMetrics /\ [][NextMetrics]_vars

----------------------------------------------------------------------------
(* What the aggregation and classification operations leave in the frame   *)
(* they are given, and a specification in which they are called one after  *)
(* another on the same frame: tx is the caller's frame, raw the frame as it *)
(* was before the first call, out the result of the last aggregation and   *)
(* ret the outcome of the last classification.                             *)

Periods(rows) == [i \in 1..Len(rows) |-> ToPeriod(rows[i].date)]

AbsOfValues(rows) == [i \in 1..Len(rows) |-> Abs(rows[i].value)]

IsExpense(rows) == [i \in 1..Len(rows) |-> rows[i].value < 0]

\* the frames at the end of calculate_monthly_summary(df)
monthly_summary_frames(rows) ==
    IF rows = <<>> THEN Bind(rows)
    ELSE LET df_copy == Copy(Bind(rows))
         IN  Assign(df_copy, "month", Periods(df_copy.frame))

\* the frames at the end of calculate_category_breakdown(df)
category_breakdown_frames(rows) ==
    IF rows = <<>> THEN Bind(rows)
    ELSE LET expenses == Copy(Filter(Bind(rows), IsExpense(rows)))
         IN  IF expenses.frame = <<>> THEN expenses
             ELSE LET with_month == Assign(expenses, "month", Periods(expenses.frame))
                  IN  Assign(with_month, "spending", AbsOfValues(with_month.frame))

\* the frames at the end of calculate_rolling_average(df, window); the date
\* column of a validated set is a datetime column
rolling_average_frames(rows) ==
    IF rows = <<>> THEN Bind(rows)
    ELSE LET expenses == Copy(Filter(Bind(rows), IsExpense(rows)))
         IN  IF expenses.frame = <<>> THEN expenses
             ELSE LET with_month == Assign(expenses, "month", Periods(expenses.frame))
                  IN  Assign(with_month, "abs_value", AbsOfValues(with_month.frame))

\* the frames at the end of add_subcategory_column(df)
add_subcategory_frames(rows) ==
    IF rows = <<>> THEN Bind(rows)
    ELSE LET df_copy == Copy(Bind(rows))
         IN  Assign(df_copy, "subcategory",
                    [i \in 1..Len(rows) |-> classify_row(df_copy.frame[i])])

\* the frames at the end of calculate_subcategory_breakdown(df, category):
\* df = add_subcategory_column(df) binds the name df to the returned frame
subcategory_breakdown_frames(rows, category) ==
    IF rows = <<>> THEN Bind(rows)
    ELSE LET added == add_subcategory_frames(rows)
             d == IF HasSubcategory(rows) THEN Bind(rows)
                  ELSE [caller |-> added.caller, frame |-> added.frame, shared |-> FALSE]
         IN  IF ~Compiles(Lower(category)) THEN d
             ELSE LET category_mask == CategoryMask(d.frame, category)
                      expenses ==
                          Copy(Filter(d, [i \in 1..Len(d.frame) |->
                                             d.frame[i].value < 0 /\ category_mask[i]]))
                  IN  IF expenses.frame = <<>> THEN expenses
                      ELSE Assign(expenses, "abs_value", AbsOfValues(expenses.frame))

CallDates == {Timestamp(2025, 12, 31), Timestamp(2026, 1, 1)}

CallValues == {-2, 1}

CallArguments ==
    { <<"f", "o", "o", "d">>,   \* food
      <<"R", "e", "n", "t">> }   \* Rent

CallRows ==
    [date : CallDates, description : BreakdownDescriptions,
     category : Range(CategoryOrder), value : CallValues]

InitCalls ==
    /\ tx \in SeqsUpTo(CallRows, MaxCallRows)
    /\ raw = DataFrame(<<"date", "description", "category", "value">>, tx)
    /\ out = None
    /\ arg = None
    /\ session = NoSession
    /\ pc = "idle"
    /\ df = NoFrame
    /\ ret = None
    /\ written = <<>>

\* calculate_monthly_summary(df) on the frame as the calls before left it
MonthlySummaryCall ==
    /\ out' = calculate_monthly_summary(tx)
    /\ tx' = monthly_summary_frames(tx).caller
    /\ arg' = None
    /\ pc' = "calculate_monthly_summary"
    /\ UNCHANGED <<df, raw, ret, written, session>>

\* calculate_category_breakdown(df)
CategoryBreakdownCall ==
    /\ out' = calculate_category_breakdown(tx)
    /\ tx' = category_breakdown_frames(tx).caller
    /\ arg' = None
    /\ pc' = "calculate_category_breakdown"
    /\ UNCHANGED <<df, raw, ret, written, session>>

\* calculate_rolling_average(df, window)
RollingAverageCall ==
    /\ \E window \in 1..MaxWindow :
          /\ arg' = window
          /\ out' = calculate_rolling_average(tx, window)
    /\ tx' = rolling_average_frames(tx).caller
    /\ pc' = "calculate_rolling_average"
    /\ UNCHANGED <<df, raw, ret, written, session>>

\* add_subcategory_column(df)
AddSubcategoryColumnCall ==
    /\ ret' = add_subcategory_column(tx)
    /\ tx' = add_subcategory_frames(tx).caller
    /\ arg' = None
    /\ pc' = "add_subcategory_column"
    /\ UNCHANGED <<df, raw, out, written, session>>

\* calculate_subcategory_breakdown(df, category)
SubcategoryBreakdownCall ==
    /\ \E category \in CallArguments :
          /\ arg' = category
          /\ ret' \in calculate_subcategory_breakdown(tx, category)
          /\ tx' = subcategory_breakdown_frames(tx, category).caller
    /\ pc' = "calculate_subcategory_breakdown"
    /\ UNCHANGED <<df, raw, out, written, session>>

NextCalls ==
    \/ MonthlySummaryCall
    \/ CategoryBreakdownCall
    \/ RollingAverageCall
    \/ AddSubcategoryColumnCall
    \/ SubcategoryBreakdownCall

SpecCalls == InitCalls /\ [][NextCalls]_vars

----------------------------------------------------------------------------
(* The upload pipeline of app.py (main).  df is the content of the         *)
(* uploaded file as read_excel_file reads it, arg says whether a file was  *)
(* uploaded and can be read, and out is what one run of main has shown:    *)
(* the success message with its count, the error message, and the object   *)
(* that was handed to the aggregation stage.                               *)

\* a Python tuple
Tuple(items) == [t |-> "tuple", items |-> items]

IsTuple(object) == "items" \in DOMAIN object

\* len(df) of a tuple or of a frame
PyLen(object) == IF IsTuple(object) THEN Len(object.items) ELSE Len(object.rows)

\* df.empty, the first step of calculate_current_balance(df): a tuple has
\* no such attribute
Empty(object) ==
    IF IsTuple(object)
    THEN Raise("AttributeError", "attribute", "'tuple' object has no attribute 'empty'", <<>>)
    ELSE Return(object.rows = <<>>)

\* what main shows when nothing past the upload widget is run
Shown == [success |-> FALSE, count |-> 0, error |-> FALSE, message |-> "",
          aggregated |-> FALSE, received |-> NoFrame]

\* display_error(str(e)) in the except branch
display_error(shown, message) == [shown EXCEPT !.error = TRUE, !.message = message]

\* the upload that main gets: none, a file that pd.read_excel cannot read,
\* or a file that it reads
Uploads == {"none", "unreadable", "readable"}

\* one run of main on the upload: what it shows, and the frame as
\* validate_file leaves it
main(upload, frame) ==
    IF upload = "none" THEN [out |-> Shown, df |-> frame]
    ELSE IF upload = "unreadable"
    THEN [out |-> display_error(Shown, "Failed to read Excel file"), df |-> frame]
    ELSE LET r == validate_file(frame)
         IN  IF r.ret.kind = "raise"
             THEN [out |-> display_error(Shown, r.ret.msg), df |-> r.df]
             ELSE LET validated == Tuple(<<r.df, r.ret.value>>)   \* df = validate_file(df)
                      success == [Shown EXCEPT !.success = TRUE, !.count = PyLen(validated)]
                      entered == [success EXCEPT !.received = validated]
                      empty == Empty(validated)
                  IN  IF empty.kind = "raise"
                      THEN [out |-> display_error(entered, empty.msg), df |-> r.df]
                      ELSE [out |-> [entered EXCEPT !.aggregated = TRUE], df |-> r.df]

\* a run of the script on an upload
Main ==
    /\ pc = "idle"
    /\ \E upload \in Uploads :
          /\ arg' = upload
          /\ out' = main(upload, df).out
          /\ df' = main(upload, df).df
    /\ pc' = "main"
    /\ UNCHANGED <<raw, ret, written, tx, session>>

NextApp == Main

SpecApp == Init /\ [][NextApp]_vars

----------------------------------------------------------------------------
(* The session state of session_manager.py.  session is st.session_state,  *)
(* a function from the keys that are set to their values; a value is None, *)
(* a bool, an int or a DataFrame.                                          *)

Boolean(b) == [t |-> "bool", v |-> b]
Integer(n) == [t |-> "int", v |-> n]
DataFrameObject == [t |-> "DataFrame"]

\* bool(value): None, False and 0 are false; a DataFrame has no truth value
Truthy(value) ==
    CASE value.t = "none" -> FALSE
      [] value.t = "bool" -> value.v
      [] value.t = "int" -> value.v # 0
      [] OTHER -> TRUE

\* st.session_state[key] = value
SetItem(state, key, value) ==
    [k \in DOMAIN state \cup {key} |-> IF k = key THEN value ELSE state[k]]

\* st.session_state.get(key, default)
Get(state, key, default) == IF key \in DOMAIN state THEN state[key] ELSE default

\* if key not in st.session_state: st.session_state[key] = value
SetDefault(state, key, value) == IF key \in DOMAIN state THEN state ELSE SetItem(state, key, value)

\* mutant of init_session_state: the three keys are set whatever the state holds
init_session_state_anew(state) ==
    SetItem(SetItem(SetItem(state, "uploaded_file", None), "df", None),
            "file_processed", Boolean(FALSE))

init_session_state(state) ==
    SetDefault(SetDefault(SetDefault(state, "uploaded_file", None), "df", None),
               "file_processed", Boolean(FALSE))

get_session_value(state, key, default) == Get(state, key, default)

set_session_value(state, key, value) == SetItem(state, key, value)

\* every key is deleted, then init_session_state()
clear_session(state) == init_session_state(NoSession)

\* has_data(): a and b is a when a is false, else b
has_data(state) ==
    LET file_processed == Get(state, "file_processed", Boolean(FALSE))
    IN  IF file_processed.t = "DataFrame"
        THEN Raise("ValueError", "truth", "The truth value of a DataFrame is ambiguous", <<>>)
        ELSE IF ~Truthy(file_processed) THEN Return(file_processed)
        ELSE Return(Boolean(Get(state, "df", None) # None))

SessionKeys == {"uploaded_file", "df", "file_processed", "currency_symbol"}

SessionValues == {None, Boolean(FALSE), Boolean(TRUE), Integer(0), DataFrameObject}

InitSession ==
    /\ session = NoSession
    /\ pc = "idle"
    /\ ret = None
    /\ out = None
    /\ arg = None
    /\ df = NoFrame
    /\ raw = NoFrame
    /\ tx = <<>>
    /\ written = <<>>

InitSessionState ==
    /\ session' = init_session_state(session)
    /\ pc' = "init_session_state"
    /\ ret' = None
    /\ UNCHANGED <<df, raw, written, tx, out, arg>>

SetSessionValue ==
    /\ \E key \in SessionKeys, value \in SessionValues :
          session' = set_session_value(session, key, value)
    /\ pc' = "set_session_value"
    /\ ret' = None
    /\ UNCHANGED <<df, raw, written, tx, out, arg>>

GetSessionValue ==
    /\ \E key \in SessionKeys : ret' = Return(get_session_value(session, key, None))
    /\ pc' = "get_session_value"
    /\ UNCHANGED <<df, raw, written, tx, out, arg, session>>

ClearSession ==
    /\ session' = clear_session(session)
    /\ pc' = "clear_session"
    /\ ret' = None
    /\ UNCHANGED <<df, raw, written, tx, out, arg>>

HasData ==
    /\ ret' = has_data(session)
    /\ pc' = "has_data"
    /\ UNCHANGED <<df, raw, written, tx, out, arg, session>>

NextSession ==
    \/ InitSessionState
    \/ SetSessionValue
    \/ GetSessionValue
    \/ ClearSession
    \/ HasData

SpecSession == InitSession /\ [][NextSession]_vars

---------------------------------------------------------------------------
(* Properties of the validator.  They speak of the upload as it was handed *)
(* in (raw), of the argument after the call (df) and of the result (ret).  *)

RawDate(i) == raw.rows[i][1]

RawValue(i) == raw.rows[i][Len(raw.columns)]

\* the recognised symbols that occur somewhere in the upload's value cells
RawSymbols ==
    {c \in DetectPattern :
        \E i \in 1..Len(raw.rows) : \E j \in 1..Len(AsStr(RawValue(i))) : AsStr(RawValue(i))[j] = c}

\* the rules of validate_file, each as a property of the upload
ViolatesCount == Len(raw.columns) # 4
ViolatesNames == raw.columns # expected_columns
ViolatesRows == Len(raw.rows) = 0
ViolatesDate == \E i \in 1..Len(raw.rows) : ToDatetimeCell(RawDate(i)).t = "error"
ViolatesCurrency == Cardinality(RawSymbols) > 1
ViolatesValue ==
    \E i \in 1..Len(raw.rows) :
        ToNumericCell(IF RawSymbols = {} THEN RawValue(i) ELSE Str(StripText(AsStr(RawValue(i))))).t = "error"

FirstViolated ==
    IF ViolatesCount THEN "count"
    ELSE IF ViolatesNames THEN "names"
    ELSE IF ViolatesRows THEN "empty"
    ELSE IF ViolatesDate THEN "date"
    ELSE IF ViolatesCurrency THEN "currency"
    ELSE IF ViolatesValue THEN "value"
    ELSE "none"

RuleMessage(rule) ==
    CASE rule = "count" -> "File must have exactly 4 columns"
      [] rule = "empty" -> "File is empty or contains only header row"
      [] rule = "date" -> "Invalid dates found in date column"
      [] rule = "currency" -> MultipleCurrencies
      [] OTHER -> "Invalid numeric values found in value column"

C2_HeaderExact ==
    pc = "validate_file" =>
        /\ Len(raw.columns) # 4 =>
              (ret.kind = "raise" /\ ret.exc = "ValueError" /\ ret.msg = RuleMessage("count"))
        /\ (Len(raw.columns) = 4 /\ raw.columns # expected_columns) =>
              /\ ret.kind = "raise"
              /\ ret.exc = "ValueError"
              /\ ret.msg = "Columns must be: date, description, category, value"
        /\ ret.kind = "return" => raw.columns = expected_columns

\* C3: validate_file is all-or-nothing: when it returns, the frame has the
\* upload's rows, in order, each with a parsed date and a numeric value.
C3_AllOrNothing ==
    (pc = "validate_file" /\ ret.kind = "return") =>
        /\ Len(df.rows) = Len(raw.rows)
        /\ \A i \in 1..Len(df.rows) :
              /\ df.rows[i][1].t = "ts"
              /\ df.rows[i][4].t = "num"
              /\ df.rows[i][2] = Str(AsStr(raw.rows[i][2]))
              /\ df.rows[i][3] = Str(AsStr(raw.rows[i][3]))

\* C4: validate_file leaves its argument as it was, whether it returns or raises.
C4_ArgumentUnchanged ==
    pc = "validate_file" => df = raw

\* C5: detect_currency_symbol returns none exactly when no value holds a
\* recognised symbol, and the symbol when it is the only one that occurs,
\* also when some values hold none; with no symbol validate_file converts
\* the values as they are, unstripped.
C5_Detection ==
    /\ pc = "detect_currency_symbol" =>
          /\ (ret = Return(None)) <=> (RawSymbols = {})
          /\ \A c \in DetectPattern : RawSymbols = {c} => ret = Return(Str(<<c>>))
    /\ (pc = "validate_file" /\ FirstViolated \in {"value", "none"} /\ RawSymbols = {}) =>
          IF \E i \in 1..Len(raw.rows) : ToNumericCell(RawValue(i)).t = "error"
          THEN ret.kind = "raise" /\ ret.rule = "value"
          ELSE /\ ret = Return(None)
               /\ \A i \in 1..Len(raw.rows) : df.rows[i][4] = ToNumericCell(RawValue(i))

\* one symbol is reported although a value of the column has none
C5_Witness ==
    /\ pc = "detect_currency_symbol"
    /\ ret = Return(Str(<<"$">>))
    /\ \E i \in 1..Len(raw.rows) : FindAll(AsStr(RawValue(i))) = {}

\* C6: with two or more distinct recognised symbols in the value column, in
\* whatever rows, detect_currency_symbol raises the fixed multiple-currency
\* error and validate_file returns no frame.
C6_MultipleCurrencies ==
    Cardinality(RawSymbols) >= 2 =>
        /\ pc = "detect_currency_symbol" =>
              (ret.kind = "raise" /\ ret.exc = "ValueError" /\ ret.msg = MultipleCurrencies)
        /\ pc = "validate_file" => ret.kind = "raise"

\* two rows with one symbol each, the euro before the dollar
C6_Witness ==
    /\ pc = "detect_currency_symbol"
    /\ Len(raw.rows) = 2
    /\ FindAll(AsStr(RawValue(1))) = {"€"}
    /\ FindAll(AsStr(RawValue(2))) = {"$"}
    /\ ret.kind = "raise"

\* C7: an amount written with one currency symbol, the minus sign before or
\* after the symbol, with or without whitespace, is read back with its sign
\* and magnitude: by strip_currency_symbols followed by the numeric
\* conversion, and by validate_file.
C7_SignAndMagnitude ==
    /\ pc = "strip_currency_symbols" =>
          \A i \in 1..Len(written) :
              ToNumericCell(ret.value[i]) = Normal(written[i].n, written[i].k)
    /\ pc = "validate_file" =>
          /\ ret.kind = "return"
          /\ \A i \in 1..Len(written) : df.rows[i][4] = Normal(written[i].n, written[i].k)

\* $-120.50 was stripped and reads as -120.5
C7_Witness ==
    /\ pc = "strip_currency_symbols"
    /\ written # <<>>
    /\ raw.rows[1][4] = Str(<<"$", "-", "1", "2", "0", ".", "5", "0">>)   \* $-120.50
    /\ ToNumericCell(ret.value[1]) = Num(-1205, 1)

---------------------------------------------------------------------------
(* Properties of the aggregations.  They speak of the transaction set (tx) *)
(* and of the result of the call (out).                                    *)

TxPeriods == {ToPeriod(tx[i].date) : i \in 1..Len(tx)}

\* the exact sum of a sequence of numbers
RECURSIVE Sum(_)
Sum(values) == IF values = <<>> THEN 0 ELSE Sum(Tail(values)) + Head(values)

\* no addition of values.sum() is rounded
SumIsExact(values) == \A k \in 1..Len(values) : FSum(SubSeq(values, 1, k)) = Sum(SubSeq(values, 1, k))

\* the float sum, over the rows of tx in their order, of the values of
\* period p whose sign is sgn (1: income, -1: expenses)
RECURSIVE SignedTotal(_, _, _)
SignedTotal(rows, p, sgn) ==
    IF rows = <<>> THEN 0
    ELSE LET last == rows[Len(rows)]
             before == SignedTotal(SubSeq(rows, 1, Len(rows) - 1), p, sgn)
         IN  IF ToPeriod(last.date) = p /\ sgn * last.value > 0
             THEN FAdd(before, last.value) ELSE before

C9_MonthlySummary ==
    pc = "calculate_monthly_summary" =>
        /\ out.columns = MonthlyColumns
        /\ {out.rows[i].month : i \in 1..Len(out.rows)} = TxPeriods
        /\ \A i \in 1..(Len(out.rows) - 1) : PeriodLess(out.rows[i].month, out.rows[i + 1].month)
        /\ \A i \in 1..Len(out.rows) :
              /\ out.rows[i].total_income = SignedTotal(tx, out.rows[i].month, 1)
              /\ out.rows[i].total_expenses = Abs(SignedTotal(tx, out.rows[i].month, -1))
        /\ tx = <<>> => out.rows = <<>>

\* January 2026 comes first in the rows and December 2025 first in the
\* result, one of the two months holding nothing but zero values
C9_Witness ==
    /\ pc = "calculate_monthly_summary"
    /\ Len(tx) = 3
    /\ ToPeriod(tx[1].date) = <<2026, 1>>
    /\ Len(out.rows) = 2
    /\ out.rows[1].month = <<2025, 12>>
    /\ out.rows[1].total_income = 0 /\ out.rows[1].total_expenses = 0
    /\ out.rows[2].total_income > 0 /\ out.rows[2].total_expenses > 0

\* the float sum, over the rows of tx in their order, of the absolute values
\* of the expenses of period and category k
RECURSIVE Spending(_, _)
Spending(rows, k) ==
    IF rows = <<>> THEN 0
    ELSE LET last == rows[Len(rows)]
             before == Spending(SubSeq(rows, 1, Len(rows) - 1), k)
         IN  IF <<ToPeriod(last.date), last.category>> = k /\ last.value < 0
             THEN FAdd(before, -last.value) ELSE before

ExpenseKeys == {<<ToPeriod(tx[i].date), tx[i].category>> : i \in {j \in 1..Len(tx) : tx[j].value < 0}}

\* C10: the category breakdown has a row for a period and category exactly
\* when they have an expense (value < 0), its spending is the absolute sum of
\* those expenses and is > 0; income and zero values add nothing, and a set
\* without expenses gives an empty result.
C10_CategoryBreakdown ==
    pc = "calculate_category_breakdown" =>
        /\ out.columns = BreakdownColumns
        /\ {<<out.rows[i].month, out.rows[i].category>> : i \in 1..Len(out.rows)} = ExpenseKeys
        /\ Len(out.rows) = Cardinality(ExpenseKeys)
        /\ \A i \in 1..Len(out.rows) :
              /\ out.rows[i].spending = Spending(tx, <<out.rows[i].month, out.rows[i].category>>)
              /\ out.rows[i].spending > 0
        /\ ExpenseKeys = {} => out.rows = <<>>

\* two expenses of one month and category beside an income and a zero
C10_Witness ==
    /\ pc = "calculate_category_breakdown"
    /\ \E i \in 1..Len(tx) : tx[i].value > 0
    /\ \E i \in 1..Len(tx) : tx[i].value = 0 /\ <<ToPeriod(tx[i].date), tx[i].category>> \notin ExpenseKeys
    /\ Len(out.rows) = 1
    /\ out.rows[1].spending = 3

---------------------------------------------------------------------------
(* Properties of the rolling average.  arg is the window of the call.      *)

\* the periods in which tx has an expense
ExpensePeriods == {ToPeriod(tx[i].date) : i \in {j \in 1..Len(tx) : tx[j].value < 0}}

\* how many expense periods come before period p
Preceding(p) == Cardinality({q \in ExpensePeriods : PeriodLess(q, p)})

\* the k-th expense period in ascending order
NthPeriod(k) == CHOOSE p \in ExpensePeriods : Preceding(p) = k - 1

\* the absolute monthly expense total of period p
MonthTotal(p) == Abs(SignedTotal(tx, p, -1))

\* the float sum of the totals of count expense periods from the k-th onward
RECURSIVE TotalsFrom(_, _)
TotalsFrom(k, count) ==
    IF count = 0 THEN 0
    ELSE FAdd(TotalsFrom(k, count - 1), MonthTotal(NthPeriod(k + count - 1)))

\* C11: for an expense series of n periods and a window w >= 1 the rolling
\* average has exactly max(0, n - w + 1) entries, one for each period from
\* the w-th onward in ascending order, each the mean of the absolute monthly
\* expense totals of that period and the w - 1 periods before it; the first
\* w - 1 periods have no entry.
C11_RollingAverage ==
    pc = "calculate_rolling_average" =>
        LET n == Cardinality(ExpensePeriods)
        IN  /\ Len(out) = (IF n - arg + 1 > 0 THEN n - arg + 1 ELSE 0)
            /\ \A j \in 1..Len(out) :
                  /\ out[j].month = NthPeriod(j + arg - 1)
                  /\ out[j].value = FDiv(TotalsFrom(j, arg), arg)

\* three expense periods and a window of 2: two entries, for the second and
\* the third period, the means of two different pairs of totals
C11_Witness ==
    /\ pc = "calculate_rolling_average"
    /\ arg = 2
    /\ Cardinality(ExpensePeriods) = 3
    /\ Len(out) = 2
    /\ out[1].month = NthPeriod(2)
    /\ out[2].month = NthPeriod(3)
    /\ out[1].value # out[2].value

\* C12 as stated: an entry is emitted for a period only if at least window
\* periods of the expense series precede that period.
C12_WindowPeriodsPrecede ==
    pc = "calculate_rolling_average" =>
        \A j \in 1..Len(out) : Preceding(out[j].month) >= arg

\* C12, amended: an entry is emitted for a period of the expense series if
\* and only if at least window - 1 periods of the series precede it, the
\* window counting the period itself; every period with fewer is omitted.
C12_WindowCountsThePeriod ==
    pc = "calculate_rolling_average" =>
        /\ \A j \in 1..Len(out) : out[j].month \in ExpensePeriods
        /\ \A p \in ExpensePeriods :
              (\E j \in 1..Len(out) : out[j].month = p) <=> Preceding(p) >= arg - 1

\* three expense periods and a window of 3: the third period, which exactly
\* two periods precede, has the only entry
C12_Witness ==
    /\ pc = "calculate_rolling_average"
    /\ arg = 3
    /\ Cardinality(ExpensePeriods) = 3
    /\ Len(out) = 1
    /\ Preceding(out[1].month) = 2

\* the window most recent expense periods up to period p
Recent(p, window) ==
    {q \in ExpensePeriods :
        /\ ~PeriodLess(p, q)
        /\ Cardinality({r \in ExpensePeriods : PeriodLess(q, r) /\ ~PeriodLess(p, r)}) < window}

\* the float sum of the totals of a set of periods, in ascending order
RECURSIVE TotalsOf(_)
TotalsOf(S) ==
    IF S = {} THEN 0
    ELSE LET last == CHOOSE p \in S : \A q \in S \ {p} : PeriodLess(q, p)
         IN  FAdd(TotalsOf(S \ {last}), MonthTotal(last))

\* the calendar months strictly between periods p and q
MonthsBetween(p, q) == (q[1] * 12 + q[2]) - (p[1] * 12 + p[2]) - 1

\* C13: the average runs over the months that have an expense, never over
\* calendar months: a month without a transaction, or with income and zero
\* values only, has no entry and adds no zero to a mean, and the window of an
\* entry is the window most recent expense months whatever the calendar gaps
\* between them.
C13_ExpenseMonthsOnly ==
    pc = "calculate_rolling_average" =>
        \A j \in 1..Len(out) :
            /\ \E i \in 1..Len(tx) : ToPeriod(tx[i].date) = out[j].month /\ tx[i].value < 0
            /\ Cardinality(Recent(out[j].month, arg)) = arg
            /\ out[j].value = FDiv(TotalsOf(Recent(out[j].month, arg)), arg)

\* expenses in two months with two calendar months between them, one of
\* these with nothing but income and one without a transaction, and a window
\* of 2: the one entry is the mean of the two expense months
C13_Witness ==
    /\ pc = "calculate_rolling_average"
    /\ arg = 2
    /\ Cardinality(ExpensePeriods) = 2
    /\ \E i \in 1..Len(tx) :
          /\ tx[i].value > 0
          /\ ToPeriod(tx[i].date) \notin ExpensePeriods
          /\ PeriodLess(NthPeriod(1), ToPeriod(tx[i].date))
          /\ PeriodLess(ToPeriod(tx[i].date), NthPeriod(2))
    /\ MonthsBetween(NthPeriod(1), NthPeriod(2)) >= 2
    /\ Len(out) = 1
    /\ out[1].month = NthPeriod(2)
    /\ out[1].value = FDiv(MonthTotal(NthPeriod(1)) + MonthTotal(NthPeriod(2)), 2)

---------------------------------------------------------------------------
(* Properties of the classifier.  For the three rulesets arg is the        *)
(* description of the call; for add_subcategory_column ret holds the       *)
(* frame with the subcategory column and tx the frame it was given.        *)

\* character c of a text, read without regard to case, is character k
SameLetter(c, k) == LowerChar(c) = k

\* pattern is a substring of the text when case is disregarded
InIgnoringCase(pattern, text) ==
    \E i \in 1..(Len(text) - Len(pattern) + 1) :
        \A j \in 1..Len(pattern) : SameLetter(text[i + j - 1], pattern[j])

\* character c of a description, lower-cased and with punctuation read as a
\* space, is character k
ReadsAs(c, k) == IF IsWordChar(c) \/ IsSpaceChar(c) THEN LowerChar(c) = k ELSE k = " "

\* keyword is a substring of the normalized description
Occurs(keyword, description) ==
    \E i \in 1..(Len(description) - Len(keyword) + 1) :
        \A j \in 1..Len(keyword) : ReadsAs(description[i + j - 1], keyword[j])

OccursAny(keywords, description) == \E k \in 1..Len(keywords) : Occurs(keywords[k], description)

\* the dispatch keywords of the three groups
FoodGroup == {<<"f", "o", "o", "d">>, <<"g", "r", "o", "c", "e", "r", "i", "e", "s">>, <<"d", "i", "n", "i", "n", "g">>}

TransportationGroup == {<<"t", "r", "a", "n", "s", "p", "o", "r", "t">>}

HobbiesGroup == {<<"h", "o", "b", "b", "i", "e", "s">>, <<"s", "u", "b", "s", "c", "r", "i", "p", "t", "i", "o", "n">>, <<"e", "n", "t", "e", "r", "t", "a", "i", "n", "m", "e", "n", "t">>}

Dispatches(group, category) == \E pattern \in group : InIgnoringCase(pattern, category)

\* C14: add_subcategory_column picks the ruleset of a row by a
\* case-insensitive substring match on its category; the groups are tried in
\* the order food (food, groceries, dining), transportation (transport),
\* hobbies (hobbies, subscription, entertainment) and the first that matches
\* wins, so a category that matches several groups is classified by the
\* earliest of them.
C14_Dispatch ==
    (pc = "add_subcategory_column" /\ tx # <<>>) =>
        /\ ret.kind = "return"
        /\ Len(ret.value) = Len(tx)
        /\ \A i \in 1..Len(tx) :
              LET c == tx[i].category
                  d == tx[i].description
                  sub == ret.value[i].subcategory
              IN  /\ Dispatches(FoodGroup, c) => sub = classify_food_subcategory(d)
                  /\ (~Dispatches(FoodGroup, c) /\ Dispatches(TransportationGroup, c)) =>
                        sub = classify_transportation_subcategory(d)
                  /\ (~Dispatches(FoodGroup, c) /\ ~Dispatches(TransportationGroup, c)
                        /\ Dispatches(HobbiesGroup, c)) =>
                        sub = classify_hobbies_subcategory(d)

\* the category 'Transport & Food' matches the transportation and the food
\* group: 'Bus Fare' is classified by the food ruleset
C14_Witness ==
    /\ pc = "add_subcategory_column"
    /\ Len(tx) = 1
    /\ tx[1].category = <<"T", "r", "a", "n", "s", "p", "o", "r", "t", " ", "&", " ", "F", "o", "o", "d">>
    /\ tx[1].description = <<"B", "u", "s", " ", "F", "a", "r", "e">>
    /\ ret.value[1].subcategory = OtherFoodSources

\* C15: a row whose category matches none of the dispatch keywords, in any
\* case, gets its category as subcategory, unchanged and in its original
\* case, whatever its description is.
C15_PassThrough ==
    (pc = "add_subcategory_column" /\ tx # <<>>) =>
        \A i \in 1..Len(tx) :
            (~Dispatches(FoodGroup \cup TransportationGroup \cup HobbiesGroup, tx[i].category)) =>
                ret.value[i].subcategory = tx[i].category

\* the category 'UTILITIES' with the description 'Grocery', a keyword of the
\* food ruleset
C15_Witness ==
    /\ pc = "add_subcategory_column"
    /\ Len(tx) = 1
    /\ tx[1].category = <<"U", "T", "I", "L", "I", "T", "I", "E", "S">>
    /\ tx[1].description = <<"G", "r", "o", "c", "e", "r", "y">>
    /\ ret.value[1].subcategory = <<"U", "T", "I", "L", "I", "T", "I", "E", "S">>

\* C16: classify_transportation_subcategory is total and two-valued: it
\* returns 'Public Transportation' exactly when the description, lower-cased
\* and with punctuation replaced by spaces, contains a public-transit keyword
\* as a substring, and 'Private Transportation' otherwise; 'Metro Transit
\* Pass' is public and 'Gas Station' private, in any case of the letters.
C16_Transportation ==
    pc = "classify_transportation_subcategory" =>
        /\ ret.kind = "return"
        /\ ret.value \in {PublicTransportation, PrivateTransportation}
        /\ ret.value = PublicTransportation <=> OccursAny(public_transport_keywords, arg)
        /\ Lower(arg) = <<"m", "e", "t", "r", "o", " ", "t", "r", "a", "n", "s", "i", "t", " ", "p", "a", "s", "s">> => ret.value = PublicTransportation
        /\ Lower(arg) = <<"g", "a", "s", " ", "s", "t", "a", "t", "i", "o", "n">> => ret.value = PrivateTransportation

\* 'Public-Transport' holds the keyword 'public transport' once it is
\* lower-cased and its hyphen is read as a space
C16_Witness ==
    /\ pc = "classify_transportation_subcategory"
    /\ arg = <<"P", "u", "b", "l", "i", "c", "-", "T", "r", "a", "n", "s", "p", "o", "r", "t">>
    /\ ret.value = PublicTransportation

\* C17: classify_food_subcategory returns 'Groceries' exactly when the
\* normalized description contains a grocery keyword, and 'Other Food
\* Sources' otherwise; the category plays no part in it: under a food
\* category every row is labelled by its description alone, 'Coffee Shop'
\* and 'Fast Food' as 'Other Food Sources' and 'Food Store' as 'Groceries'.
C17_Food ==
    /\ pc = "classify_food_subcategory" =>
          /\ ret.kind = "return"
          /\ ret.value = (IF OccursAny(grocery_keywords, arg) THEN Groceries ELSE OtherFoodSources)
          /\ arg \in {<<"C", "o", "f", "f", "e", "e", " ", "S", "h", "o", "p">>, <<"F", "a", "s", "t", " ", "F", "o", "o", "d">>} => ret.value = OtherFoodSources
          /\ arg = <<"F", "o", "o", "d", " ", "S", "t", "o", "r", "e">> => ret.value = Groceries
    /\ (pc = "add_subcategory_column" /\ tx # <<>>) =>
          \A i \in 1..Len(tx) :
              Dispatches(FoodGroup, tx[i].category) =>
                  ret.value[i].subcategory =
                      (IF OccursAny(grocery_keywords, tx[i].description)
                       THEN Groceries ELSE OtherFoodSources)

\* the category 'Groceries' with the description 'Coffee Shop'
C17_Witness ==
    /\ pc = "add_subcategory_column"
    /\ Len(tx) = 1
    /\ tx[1].category = <<"G", "r", "o", "c", "e", "r", "i", "e", "s">>
    /\ tx[1].description = <<"C", "o", "f", "f", "e", "e", " ", "S", "h", "o", "p">>
    /\ ret.value[1].subcategory = OtherFoodSources

\* the groups of the hobbies ruleset in the order of the claim
HobbiesOrder ==
    << <<"S", "t", "r", "e", "a", "m", "i", "n", "g">>,   \* Streaming
       <<"F", "i", "t", "n", "e", "s", "s">>,   \* Fitness
       <<"G", "a", "m", "i", "n", "g">>,   \* Gaming
       <<"E", "d", "u", "c", "a", "t", "i", "o", "n", "a", "l">>,   \* Educational
       <<"B", "o", "o", "k", "s">>,   \* Books
       <<"N", "e", "w", "s", " ", "&", " ", "M", "e", "d", "i", "a">>,   \* News & Media
       <<"P", "r", "o", "f", "e", "s", "s", "i", "o", "n", "a", "l">> >>   \* Professional

\* the groups that have a keyword in the normalized description
MatchingGroups(description) ==
    {g \in 1..Len(subcategory_keywords) : OccursAny(subcategory_keywords[g].keywords, description)}

\* C18: classify_hobbies_subcategory tries the groups in the order Streaming,
\* Fitness, Gaming, Educational, Books, News & Media, Professional and returns
\* the first group one of whose keywords is a substring of the normalized
\* description, wherever in the description the keywords stand; without a
\* match it returns 'Other Subscriptions'.
C18_Hobbies ==
    pc = "classify_hobbies_subcategory" =>
        /\ ret.kind = "return"
        /\ [g \in 1..Len(subcategory_keywords) |-> subcategory_keywords[g].subcategory] = HobbiesOrder
        /\ MatchingGroups(arg) = {} => ret.value = OtherSubscriptions
        /\ MatchingGroups(arg) # {} =>
              ret.value = HobbiesOrder[CHOOSE g \in MatchingGroups(arg) :
                                          \A h \in MatchingGroups(arg) : g <= h]

\* 'Gym Streaming' has a Fitness keyword before its Streaming keyword
C18_Witness ==
    /\ pc = "classify_hobbies_subcategory"
    /\ arg = <<"G", "y", "m", " ", "S", "t", "r", "e", "a", "m", "i", "n", "g">>
    /\ MatchingGroups(arg) = {1, 2}
    /\ ret.value = HobbiesOrder[1]

---------------------------------------------------------------------------
(* Properties of the subcategory breakdown.  arg is the category argument  *)
(* of the call, tx the frame it was given and ret its outcome.             *)

\* the call returned a breakdown with at least one row
NonEmptyBreakdown ==
    /\ pc = "calculate_subcategory_breakdown"
    /\ ret.kind = "return"
    /\ ret.value.rows # <<>>

\* C19: in every non-empty result of calculate_subcategory_breakdown the
\* percentages add up to 100 to within 0.01, and the percentage of each row
\* is 100 * amount / (the sum of all amounts), to within the same 0.01.
C19_Percentages ==
    NonEmptyBreakdown =>
        LET rows == ret.value.rows
            total == Sum([i \in 1..Len(rows) |-> rows[i].amount])
            percentages == Sum([i \in 1..Len(rows) |-> rows[i].percentage])
        IN  /\ Abs(percentages - 100 * Resolution) <= Resolution \div 100
            /\ \A i \in 1..Len(rows) :
                  Abs(rows[i].percentage * total - 100 * rows[i].amount * Resolution)
                      <= (Resolution * total) \div 100

\* three subcategories with a third of the spending each: the percentages
\* are rounded and do not add up to 100 exactly
C19_Witness ==
    /\ NonEmptyBreakdown
    /\ Len(ret.value.rows) = 3
    /\ \A i \in 1..3 : ret.value.rows[i].amount = ret.value.rows[1].amount
    /\ Sum([i \in 1..3 |-> ret.value.rows[i].percentage]) # 100 * Resolution

\* the subcategory of row i of tx
SubcategoryOf(i) ==
    IF "subcategory" \in DOMAIN tx[i] THEN tx[i].subcategory ELSE classify_row(tx[i])

\* the rows of tx with a value < 0 whose category contains the argument as
\* a substring when case is disregarded
Selected ==
    {i \in 1..Len(tx) : tx[i].value < 0 /\ In(Lower(arg), Lower(tx[i].category))}

\* the float sum, in row order, of the absolute values of the selected rows
\* of the first n rows of tx that have subcategory s
RECURSIVE SelectedAmount(_, _)
SelectedAmount(s, n) ==
    IF n = 0 THEN 0
    ELSE IF n \in Selected /\ SubcategoryOf(n) = s
         THEN FAdd(SelectedAmount(s, n - 1), -tx[n].value)
         ELSE SelectedAmount(s, n - 1)

\* C20: calculate_subcategory_breakdown(df, filter) selects exactly the
\* transactions with value < 0 whose category contains filter as a
\* case-insensitive substring, and returns one row for each subcategory of
\* these, its amount their absolute sum, the rows in descending order of
\* amount.
C20_Breakdown ==
    (pc = "calculate_subcategory_breakdown" /\ tx # <<>>) =>
        /\ ret.kind = "return"
        /\ ret.value.columns = SubcategoryColumns
        /\ LET rows == ret.value.rows
           IN  /\ {rows[j].subcategory : j \in 1..Len(rows)} = {SubcategoryOf(i) : i \in Selected}
               /\ Len(rows) = Cardinality({SubcategoryOf(i) : i \in Selected})
               /\ \A j \in 1..Len(rows) :
                     rows[j].amount = SelectedAmount(rows[j].subcategory, Len(tx))
               /\ \A j \in 1..(Len(rows) - 1) : rows[j].amount >= rows[j + 1].amount

----------------------------------------------------------------------------
(* Properties of the empty inputs of the classifier and the breakdown. *)

CannotBeEmpty == Raise("ValueError", "empty", "DataFrame cannot be empty", <<>>)

\* C21: add_subcategory_column and calculate_subcategory_breakdown fail with
\* 'DataFrame cannot be empty' on an empty transaction set, while
\* calculate_subcategory_breakdown on a non-empty set whose filter matches no
\* expense returns the empty frame with the columns subcategory, amount,
\* percentage and raises nothing.
C21_EmptyInputs ==
    /\ (pc = "add_subcategory_column" /\ tx = <<>>) => ret = CannotBeEmpty
    /\ (pc = "calculate_subcategory_breakdown" /\ tx = <<>>) => ret = CannotBeEmpty
    /\ (pc = "calculate_subcategory_breakdown" /\ tx # <<>> /\ Selected = {}) =>
           ret = Return(DataFrame(SubcategoryColumns, <<>>))

\* a non-empty set, a filter that is in no category of it, and an error
C21_Witness ==
    /\ pc = "calculate_subcategory_breakdown"
    /\ tx # <<>>
    /\ Selected = {}
    /\ ret.kind = "raise"

----------------------------------------------------------------------------
(* Properties of the metrics.  tx is the transaction set of the call, arg  *)
(* the monthly summary it was given and ret its outcome.                   *)

\* calculate_financial_metrics returned its dictionary
MetricsReturned == pc = "calculate_financial_metrics" /\ ret.kind = "return"

\* row i of the monthly summary is the earliest of the rows with its net_income
EarliestOfItsValue(i) ==
    \A j \in 1..Len(arg.rows) :
        (j # i /\ arg.rows[j].net_income = arg.rows[i].net_income) =>
            PeriodLess(arg.rows[i].month, arg.rows[j].month)

\* C22: best_month is the period with the greatest net_income of the monthly
\* summary and worst_month the period with the least, each reported with the
\* net_income of that period; of several periods with the greatest (or the
\* least) net_income the earliest is reported.
C22_BestAndWorstMonth ==
    MetricsReturned =>
        /\ \E i \in 1..Len(arg.rows) :
              /\ ret.value.best_month.month = StrfTime(arg.rows[i].month)
              /\ ret.value.best_month.net_income = arg.rows[i].net_income
              /\ \A j \in 1..Len(arg.rows) : arg.rows[j].net_income <= arg.rows[i].net_income
              /\ EarliestOfItsValue(i)
        /\ \E i \in 1..Len(arg.rows) :
              /\ ret.value.worst_month.month = StrfTime(arg.rows[i].month)
              /\ ret.value.worst_month.net_income = arg.rows[i].net_income
              /\ \A j \in 1..Len(arg.rows) : arg.rows[j].net_income >= arg.rows[i].net_income
              /\ EarliestOfItsValue(i)

\* three months of which the last two tie for the greatest net_income, the
\* rows of the set beginning with one of February: January is reported
C22_Witness ==
    /\ MetricsReturned
    /\ Len(arg.rows) = 3
    /\ arg.rows[2].net_income = arg.rows[3].net_income
    /\ arg.rows[1].net_income < arg.rows[2].net_income
    /\ ToPeriod(tx[1].date) = <<2026, 2>>
    /\ ret.value.best_month.month = StrfTime(<<2026, 1>>)
    /\ ret.value.worst_month.month = StrfTime(<<2025, 12>>)

\* C23: calculate_financial_metrics with a monthly summary that has no row
\* fails with an error and returns no dictionary.
C23_EmptyMonthlySummary ==
    (pc = "calculate_financial_metrics" /\ arg.rows = <<>>) => ret.kind = "raise"

\* the call with a monthly summary without a row, for a set that has rows
C23_Witness ==
    /\ pc = "calculate_financial_metrics"
    /\ arg.rows = <<>>
    /\ tx # <<>>
    /\ ret.kind = "raise"
    /\ ret.exc = "ValueError"

\* the metrics of a set with a row, called with the monthly summary of the set
MetricsOfSummary ==
    /\ MetricsReturned
    /\ tx # <<>>
    /\ arg = calculate_monthly_summary(tx)

\* C26 as stated: current_balance is the sum of net_income over the rows of
\* the monthly summary, average_monthly_savings times the number of months
\* is current_balance, and worst_month.net_income <= average_monthly_savings
\* <= best_month.net_income.
C26_BalanceAndAverage ==
    MetricsOfSummary =>
        LET m == ret.value
            n == Len(arg.rows)
        IN  /\ m.current_balance = FSum(NetIncome(arg))
            /\ m.average_monthly_savings * n = m.current_balance * Resolution
            /\ m.worst_month.net_income * Resolution <= m.average_monthly_savings
            /\ m.average_monthly_savings <= m.best_month.net_income * Resolution

\* none of the float sums behind the metrics is rounded: the sum of all
\* values, the sum of each month and the sum of the months' net_income
MetricsSumsExact ==
    /\ SumIsExact(Values(tx))
    /\ \A i \in 1..Len(arg.rows) : SumIsExact(Values(InMonth(tx, arg.rows[i].month)))
    /\ SumIsExact(NetIncome(arg))

\* C26, amended: when none of the float sums is rounded, current_balance is
\* the sum of net_income over the rows of the monthly summary, worst_month's
\* net_income <= average_monthly_savings <= best_month's net_income, and
\* average_monthly_savings times the number of months differs from
\* current_balance by no more than the rounding of the quotient.
C26_WhenSumsExact ==
    (MetricsOfSummary /\ MetricsSumsExact) =>
        LET m == ret.value
            n == Len(arg.rows)
        IN  /\ m.current_balance = Sum(NetIncome(arg))
            /\ 2 * Abs(m.average_monthly_savings * n - m.current_balance * Resolution) <= n
            /\ m.worst_month.net_income * Resolution <= m.average_monthly_savings
            /\ m.average_monthly_savings <= m.best_month.net_income * Resolution

\* three months with income and expenses, summed exactly, whose average is
\* strictly between the worst and the best month and is a rounded quotient
C26_Witness ==
    /\ MetricsOfSummary
    /\ MetricsSumsExact
    /\ Len(arg.rows) = 3
    /\ \E i \in 1..Len(tx) : tx[i].value < 0
    /\ ret.value.worst_month.net_income * Resolution < ret.value.average_monthly_savings
    /\ ret.value.average_monthly_savings < ret.value.best_month.net_income * Resolution
    /\ ret.value.average_monthly_savings * 3 # ret.value.current_balance * Resolution

----------------------------------------------------------------------------
(* Properties of the calls in sequence.                                    *)

\* C24: calculate_monthly_summary, calculate_category_breakdown,
\* calculate_rolling_average, add_subcategory_column and
\* calculate_subcategory_breakdown leave the frame they are given as it was
\* (no row altered, no column added), so that, called in any order and any
\* number of times on one frame, each gives the result it gives when it is
\* called alone on that frame.
C24_FrameUnchanged ==
    /\ tx = raw.rows
    /\ pc = "calculate_monthly_summary" => out = calculate_monthly_summary(raw.rows)
    /\ pc = "calculate_category_breakdown" => out = calculate_category_breakdown(raw.rows)
    /\ pc = "calculate_rolling_average" => out = calculate_rolling_average(raw.rows, arg)
    /\ pc = "add_subcategory_column" => ret = add_subcategory_column(raw.rows)
    /\ pc = "calculate_subcategory_breakdown" =>
           ret \in calculate_subcategory_breakdown(raw.rows, arg)

\* a classification and then an aggregation have been called on a frame of
\* two rows, the first with a subcategory column in its result, the second
\* with a row, and the frame has its four columns
C24_Witness ==
    /\ pc = "calculate_category_breakdown"
    /\ Len(tx) = 2
    /\ out.rows # <<>>
    /\ ret # None
    /\ ret.kind = "return"
    /\ \A i \in 1..Len(tx) : DOMAIN tx[i] = {"date", "description", "category", "value"}

----------------------------------------------------------------------------
(* Properties of detection and stripping together.                         *)

\* a text without the characters of the set S, the others in their order
Without(text, S) == SelectSeq(text, LAMBDA c : c \notin S)

\* C25: detection and stripping agree on the currency symbols: every symbol
\* that detect_currency_symbol recognizes is removed by
\* strip_currency_symbols, which removes nothing but these symbols and
\* whitespace; so detect_currency_symbol finds nothing in a stripped column
\* and stripping a stripped column changes nothing.
C25_DetectionAndStrippingAgree ==
    pc = "strip_currency_symbols" =>
        LET given == Column(raw, "value")
            stripped == ret.value
        IN  /\ Len(stripped) = Len(given)
            /\ \A i \in 1..Len(given) :
                  stripped[i] = Str(Without(AsStr(given[i]), DetectPattern \cup Whitespace))
            /\ detect_currency_symbol(stripped) = Return(None)
            /\ strip_currency_symbols(stripped) = stripped

\* "-₿ 4.50", a negative amount with the last symbol of the class and a
\* space, was stripped to "-4.50"
C25_Witness ==
    /\ pc = "strip_currency_symbols"
    /\ raw.rows[1][4] = Str(<<"-", "₿", " ", "4", ".", "5", "0">>)
    /\ detect_currency_symbol(Column(raw, "value")) = Return(Str(<<"₿">>))
    /\ ret.value[1] = Str(<<"-", "4", ".", "5", "0">>)

----------------------------------------------------------------------------
(* Properties of the category breakdown beside the monthly summary of the  *)
(* same set.                                                               *)

\* the spending of the rows of period p of the breakdown, in their order
SpendingOf(breakdown, p) ==
    LET rows == Select(breakdown.rows, [i \in 1..Len(breakdown.rows) |-> breakdown.rows[i].month = p])
    IN  [i \in 1..Len(rows) |-> rows[i].spending]

\* total_expenses of period p in the monthly summary
TotalExpensesOf(monthly, p) ==
    LET i == CHOOSE j \in 1..Len(monthly.rows) : monthly.rows[j].month = p
    IN  monthly.rows[i].total_expenses

\* the periods of a result
PeriodsOf(frame) == {frame.rows[i].month : i \in 1..Len(frame.rows)}

\* C27 as stated: every period of calculate_category_breakdown is a period
\* of calculate_monthly_summary of the same set, and for every period the
\* sum of spending over its categories is total_expenses of that period.
C27_SpendingIsTotalExpenses ==
    pc = "calculate_category_breakdown" =>
        LET monthly == calculate_monthly_summary(tx)
        IN  /\ PeriodsOf(out) \subseteq PeriodsOf(monthly)
            /\ \A p \in PeriodsOf(monthly) :
                  FSum(SpendingOf(out, p)) = TotalExpensesOf(monthly, p)

\* none of the float sums of the expenses of period p is rounded: the sum of
\* the month, the sum of each category, the sum of the categories' sums
ExpenseSumsExact(breakdown, p) ==
    /\ SumIsExact(Negative(Values(InMonth(tx, p))))
    /\ \A c \in Range(CategoryOrder) :
          SumIsExact(Negative(Values(Select(InMonth(tx, p),
              [i \in 1..Len(InMonth(tx, p)) |-> InMonth(tx, p)[i].category = c]))))
    /\ SumIsExact(SpendingOf(breakdown, p))

\* C27, amended: every period of the category breakdown is a period of the
\* monthly summary, and for every period in which no float sum of expenses
\* is rounded the sum of spending over its categories is total_expenses.
C27_WhenSumsExact ==
    pc = "calculate_category_breakdown" =>
        LET monthly == calculate_monthly_summary(tx)
        IN  /\ PeriodsOf(out) \subseteq PeriodsOf(monthly)
            /\ \A p \in PeriodsOf(monthly) :
                  ExpenseSumsExact(out, p) =>
                      Sum(SpendingOf(out, p)) = TotalExpensesOf(monthly, p)

\* a month with expenses of two categories, summed exactly, beside a month
\* of the monthly summary that has no expense and is not in the breakdown
C27_Witness ==
    /\ pc = "calculate_category_breakdown"
    /\ Len(out.rows) = 2
    /\ out.rows[1].month = out.rows[2].month
    /\ ExpenseSumsExact(out, out.rows[1].month)
    /\ out.rows[1].spending + out.rows[2].spending =
           TotalExpensesOf(calculate_monthly_summary(tx), out.rows[1].month)
    /\ PeriodsOf(out) # PeriodsOf(calculate_monthly_summary(tx))

----------------------------------------------------------------------------
(* Properties of get_all_category_breakdowns.                              *)

\* the expenses of tx whose category is c
ExpensesOfCategory(c) == {i \in 1..Len(tx) : tx[i].value < 0 /\ tx[i].category = c}

\* the exact sum of the absolute values of the rows I of tx
RECURSIVE AbsoluteSum(_)
AbsoluteSum(I) ==
    IF I = {} THEN 0
    ELSE LET i == CHOOSE j \in I : TRUE IN Abs(tx[i].value) + AbsoluteSum(I \ {i})

\* C28: in the result of get_all_category_breakdowns every category with at
\* least one expense is a key, and the breakdown under a key c covers the
\* expenses whose category equals c and no other: its subcategories are
\* theirs and its amounts add up to their absolute sum, also when another
\* category contains c as a substring.
C28_BreakdownPerCategory ==
    (pc = "get_all_category_breakdowns" /\ tx # <<>>) =>
        /\ ret.kind = "return"
        /\ \A i \in 1..Len(tx) : tx[i].value < 0 => tx[i].category \in DOMAIN ret.value
        /\ \A c \in DOMAIN ret.value :
              LET rows == ret.value[c].rows
              IN  /\ {rows[j].subcategory : j \in 1..Len(rows)} =
                         {SubcategoryOf(i) : i \in ExpensesOfCategory(c)}
                  /\ Sum([j \in 1..Len(rows) |-> rows[j].amount]) =
                         AbsoluteSum(ExpensesOfCategory(c))

\* a set with expenses of the categories Food and Food (Bar), the first a
\* substring of the second, for which a dictionary was returned
C28_Witness ==
    /\ pc = "get_all_category_breakdowns"
    /\ ret.kind = "return"
    /\ ExpensesOfCategory(<<"F", "o", "o", "d">>) # {}
    /\ ExpensesOfCategory(<<"F", "o", "o", "d", " ", "(", "B", "a", "r", ")">>) # {}

----------------------------------------------------------------------------
(* Properties of the upload pipeline.  raw is the file as it was uploaded. *)

\* main has run on a file that read_excel_file read and validate_file accepts
ValidUpload ==
    /\ pc = "main"
    /\ arg = "readable"
    /\ validate_file(raw).ret.kind = "return"

\* C29: whenever read_excel_file and validate_file both succeed on the
\* uploaded file, main enters the aggregation stage with the validated
\* table (calculate_current_balance and the later stages receive the
\* canonical transaction set), the transaction count it reports is the
\* number of rows, and display_error is not called.
C29_ValidUploadIsAggregated ==
    ValidUpload =>
        /\ out.aggregated
        /\ out.received = validate_file(raw).df
        /\ out.success /\ out.count = Len(raw.rows)
        /\ ~out.error

\* a valid file of one row: the reported count is 2 and the error is shown
C29_Witness ==
    /\ ValidUpload
    /\ Len(raw.rows) = 1
    /\ out.success /\ out.count = 2
    /\ out.error
    /\ out.message = "'tuple' object has no attribute 'empty'"
    /\ ~out.aggregated

----------------------------------------------------------------------------
(* Properties of the session state.                                        *)

\* the state that init_session_state makes of a session without a key
SessionDefaults ==
    [k \in {"uploaded_file", "df", "file_processed"} |->
        IF k = "file_processed" THEN Boolean(FALSE) ELSE None]

\* has_data() has returned a true value
HasDataIsTrue == pc = "has_data" /\ ret.kind = "return" /\ Truthy(ret.value)

\* has_data() is true only with file_processed set and df not None
TrueOnlyWithData ==
    HasDataIsTrue =>
        /\ "file_processed" \in DOMAIN session /\ Truthy(session["file_processed"])
        /\ "df" \in DOMAIN session /\ session["df"] # None

\* after clear_session the state is the three keys with their defaults, and
\* has_data() is false
ClearedIsDefaults ==
    pc = "clear_session" =>
        /\ session = SessionDefaults
        /\ has_data(session) = Return(Boolean(FALSE))

\* init_session_state leaves every key that is set with its value
InitKeepsKeys ==
    InitSessionState =>
        \A k \in DOMAIN session : k \in DOMAIN session' /\ session'[k] = session[k]

\* C30: under any sequence of init_session_state, set_session_value and
\* clear_session, has_data() is true only when file_processed is set and df
\* is not None, init_session_state never overwrites a key that exists, and
\* right after clear_session the state holds exactly uploaded_file = None,
\* df = None, file_processed = False, so that has_data() is false.
C30_SessionState == [](TrueOnlyWithData /\ ClearedIsDefaults) /\ [][InitKeepsKeys]_vars

\* has_data() is true in a state with a DataFrame under df, file_processed
\* set and a further key
C30_Witness ==
    /\ HasDataIsTrue
    /\ "currency_symbol" \in DOMAIN session
    /\ session["df"] = DataFrameObject
    /\ session["file_processed"] = Boolean(TRUE)

====
